---- MODULE Spec2Model ----
(***************************************************************************)
(* Model of the shortlist agent core.                                      *)
(*                                                                         *)
(* DefaultAgent.run (backend/agent/default/agent.py) is a generator: it    *)
(* suspends at every yield.  The model has one action per stretch of code  *)
(* between two suspension points, or between a suspension point and a      *)
(* call to an external collaborator (the provider stream, a tool handler). *)
(* The provider and the tool handlers are collaborators: what they return  *)
(* is drawn from small sets.                                               *)
(***************************************************************************)
EXTENDS Integers, Sequences, FiniteSets, TLC

(***************************************************************************)
(* Bounds.                                                                 *)
(***************************************************************************)
\* The iteration cap of the main loop.  The source sets it to 15
\* (default/agent.py:26); the model runs the same loop with a smaller cap so
\* that runs which exhaust the cap are explored exhaustively.
MAX_ITERATIONS == 2

\* The scope of a run: the most items the collaborators hand to the loop in
\* one run, an item being a non-empty text fragment of the provider, a tool
\* call of a model turn, a fault of the provider stream, or an event queued
\* by a tool handler.
MaxInputs == 3

(***************************************************************************)
(* Values.                                                                 *)
(***************************************************************************)
\* Text is a sequence of characters; "" is <<>>.
EmptyText == <<>>

\* Payloads are opaque to the loop; the model makes them distinct so that
\* order, loss and duplication show: the k-th non-empty text fragment of a
\* run is the k-th letter, the k-th queued event carries the k-th letter, and
\* a provider fault carries the number of the iteration it was raised in.
Letters == << "a", "b", "c", "d", "e", "f" >>
Letter(k) == << Letters[((k - 1) % Len(Letters)) + 1] >>

BoundedSeq(S, n) == UNION {[1..k -> S] : k \in 0..n}

\* Tool names in registration order: the order in which the mixin modules
\* are imported by backend/agent/tools/__init__.py, each module registering
\* its decorated methods top to bottom.
TOOL_REGISTRY ==
    << "extract_application_todos", "job_search", "create_job", "list_jobs",
       "read_user_profile", "update_user_profile", "read_resume",
       "run_job_search", "scrape_url", "add_search_result",
       "list_search_results", "web_search" >>

Registered == {TOOL_REGISTRY[i] : i \in 1..Len(TOOL_REGISTRY)}

\* Names a model turn may put in a tool call: a registered tool, a name that
\* is no tool, and the empty name of a malformed call.
CallNames == {"web_search", "bogus", ""}

\* What a registered handler does when invoked: returns a mapping without
\* "error", returns a mapping with "error", raises, or returns a mapping that
\* json.dumps rejects (a value that is not JSON-compatible).
HandlerOutcomes == {"ok", "err", "raise", "bad"}

\* Out-of-band events a handler may queue through the event callback.
SideEvent(k) ==
    [tag |-> IF k % 2 = 1 THEN "search_result_added" ELSE "search_progress",
     text |-> Letter(k)]

\* Messages of provider faults.
FaultMessage(it) == Letter(it + 1)

NoTool == "none"

(***************************************************************************)
(* Call ids.  An id is the vendor's, or a fresh uuid4 when the vendor gave  *)
(* none (default/agent.py:260, :88); either way it is unique in the run.   *)
(* The model numbers the calls by iteration and position.                  *)
(***************************************************************************)
CallId(it, k) == it * (MaxInputs + 1) + k + 1

\* The id of log entries and messages that are about no call: below every
\* call id.
NoId == CallId(0, 0) - 1

(***************************************************************************)
(* State.                                                                  *)
(***************************************************************************)
VARIABLES
    pc,                 \* where the generator resumes
    iteration,          \* _iteration of the for loop
    collected_content,  \* text of the current turn
    full_text,          \* text accumulated over the run
    lc_messages,        \* the history sent to the provider
    tool_calls,         \* the calls being executed (main or recovered)
    tc_index,           \* position in tool_calls of the call in progress
    result,             \* what tools.execute returned for that call
    pending_events,     \* self._pending_events
    log                 \* everything the run has done, in order

agentVars == << pc, iteration, collected_content, full_text, lc_messages,
                tool_calls, tc_index, result, pending_events, log >>

\* The other components of the agent core are modelled each under a
\* specification of its own; their state is idle in the specifications of
\* the others.
VARIABLES
    request,            \* the call of AgentTools.execute being made
    reply               \* what that call did

dispatchVars == << request, reply >>

NoRequest == [tool_name |-> NoTool]
NoReply == [returned |-> FALSE]

DispatchIdle == request = NoRequest /\ reply = NoReply

VARIABLES
    accumulated,        \* the list of _ToolCallAccumulator of a turn
    fragments,          \* the tool-call chunks received in the turn, in order
    final_tool_calls    \* what _finalize_tool_calls returned

accVars == << accumulated, fragments, final_tool_calls >>

NotFinalized == [finalized |-> FALSE]

AccIdle ==
    accumulated = <<>> /\ fragments = <<>> /\ final_tool_calls = NotFinalized

VARIABLES
    stream_text,        \* the text the provider streams in the turn
    delivered           \* the chunk contents delivered so far, in order

textVars == << stream_text, delivered >>

TextIdle == stream_text = EmptyText /\ delivered = <<>>

VARIABLES
    search_results,     \* the rows of the search_results table
    controller,         \* the JobSearchSubAgentTools object
    pushed,             \* the events passed to event_callback
    attempts            \* the calls of add_search_result, with what they returned

subVars == << search_results, controller, pushed, attempts >>

NoController == [conversation_id |-> NoId]

SubIdle ==
    /\ search_results = <<>>
    /\ controller = NoController
    /\ pushed = <<>>
    /\ attempts = <<>>

VARIABLES
    matcher,            \* _match_json_to_tool: its argument, its locals, its result
    raw_text,           \* the text handed to _extract_last_json_object
    scan                \* _extract_last_json_object: its locals, its result

recoveryVars == << matcher, raw_text, scan >>

NoMatcher == [called |-> FALSE]
NoScan == [called |-> FALSE]

RecoveryIdle == matcher = NoMatcher /\ raw_text = EmptyText /\ scan = NoScan

VARIABLES
    job_run             \* LangChainJobSearchAgent.run: its place, its locals, what it did

runVars == << job_run >>

NoJobRun == [pc |-> "start"]

RunIdle == job_run = NoJobRun

VARIABLES
    peers               \* two JobSearchSubAgentTools objects alive at the same time

peerVars == << peers >>

PeersIdle == peers = << NoController, NoController >>

VARIABLES
    profile,            \* the user profile document (its revision)
    refresh             \* LangChainOnboardingAgent.run: its place, its locals, what it did

refreshVars == << profile, refresh >>

NoRefresh == [pc |-> "start"]

RefreshIdle == profile = 0 /\ refresh = NoRefresh

VARIABLES
    onboarding          \* DefaultOnboardingAgent.run: its place, its locals, what it did

onboardingVars == << onboarding >>

NoOnboarding == [pc |-> "start"]

OnboardingIdle == onboarding = NoOnboarding

vars == << agentVars, dispatchVars, accVars, textVars, subVars, recoveryVars,
           runVars, peerVars, refreshVars, onboardingVars >>

\* What the steps of one component leave alone.
notAgent == << dispatchVars, accVars, textVars, subVars, recoveryVars, runVars,
    peerVars, refreshVars, onboardingVars >>
notDispatch == << agentVars, accVars, textVars, subVars, recoveryVars, runVars,
    peerVars, refreshVars, onboardingVars >>
notAcc == << agentVars, dispatchVars, textVars, subVars, recoveryVars, runVars,
    peerVars, refreshVars, onboardingVars >>
notText == << dispatchVars, accVars, subVars, recoveryVars, runVars,
    peerVars, refreshVars, onboardingVars >>
notSub == << agentVars, dispatchVars, accVars, textVars, recoveryVars, runVars,
    peerVars, refreshVars, onboardingVars >>
notMatcher == << agentVars, dispatchVars, accVars, textVars, subVars, raw_text,
                 scan, runVars,
    peerVars, refreshVars, onboardingVars >>
notScan == << agentVars, dispatchVars, accVars, textVars, subVars, matcher,
              runVars,
    peerVars, refreshVars, onboardingVars >>
notRun == << agentVars, dispatchVars, accVars, textVars, recoveryVars,
    peerVars, refreshVars, onboardingVars >>
notPeers == << agentVars, dispatchVars, accVars, textVars, controller, attempts,
    recoveryVars, runVars, refreshVars, onboardingVars >>
notRefresh == << agentVars, dispatchVars, accVars, textVars, subVars,
    recoveryVars, runVars, peerVars, onboardingVars >>
notOnboarding == << agentVars, dispatchVars, accVars, textVars, subVars,
    recoveryVars, runVars, peerVars, refreshVars >>

(***************************************************************************)
(* The log: a ghost record of what the run did, in program order.          *)
(*   yield    an event handed to the caller (tag = event name)             *)
(*   stream   a call of bound_model.stream                                 *)
(*   call     a tool call of the merged response of a turn                *)
(*   turn     how a provider stream ended (tag = no_calls, all_malformed,  *)
(*            calls, fault)                                                *)
(*   execute  a call of tools.execute                                      *)
(*   handler  an invocation of a tool handler                              *)
(*   queue    an event queued through the event callback                   *)
(*   append   a message appended to lc_messages (tag = role)               *)
(*   raise    a fault raised inside run (tag = where)                      *)
(***************************************************************************)
\* id and name are those of the tool call an entry is about (NoId, NoTool
\* when it is about none); text is the content or message of an event.
Entry(kind, tag, id, name, text) ==
    [kind |-> kind, tag |-> tag, id |-> id, name |-> name, text |-> text]

Yield(tag, id, name, text) == Entry("yield", tag, id, name, text)

\* The events the caller has received, in order.
Events == SelectSeq(log, LAMBDA e : e.kind = "yield")

Count(s, P(_)) == Len(SelectSeq(s, P))

(***************************************************************************)
(* Messages of the history.                                                *)
(***************************************************************************)
SystemMessage == [role |-> "system", content |-> EmptyText,
                  calls |-> <<>>, call_id |-> NoId]
HumanMessage(c) == [role |-> "human", content |-> c,
                    calls |-> <<>>, call_id |-> NoId]
AIMessage(c, calls) == [role |-> "ai", content |-> c,
                        calls |-> calls, call_id |-> NoId]
ToolMessage(id) == [role |-> "tool", content |-> EmptyText,
                    calls |-> <<>>, call_id |-> id]

\* Conversations the caller may pass to run: role and content of each message.
InputMessages ==
    { << [role |-> "user", content |-> << "q" >>],
         [role |-> "assistant", content |-> << "r" >>],
         [role |-> "tool", content |-> << "s" >>],
         [role |-> "user", content |-> << "t" >>] >> }

\* default/agent.py:221-226: the system message, then one message per user
\* or assistant message of the input; other roles are skipped.
RECURSIVE BuildMessages(_)
BuildMessages(messages) ==
    IF messages = <<>> THEN << SystemMessage >>
    ELSE LET init == BuildMessages(SubSeq(messages, 1, Len(messages) - 1))
             msg == messages[Len(messages)]
         IN  IF msg.role = "user"
             THEN Append(init, HumanMessage(msg.content))
             ELSE IF msg.role = "assistant"
             THEN Append(init, AIMessage(msg.content, <<>>))
             ELSE init

(***************************************************************************)
(* Tool dispatch: AgentTools.execute.                                      *)
(***************************************************************************)
\* The mapping execute returns: whether it has the key "error", whether
\* json.dumps accepts it, and the error message.
Result(error, serializable, msg) ==
    [error |-> error, serializable |-> serializable, msg |-> msg]

NoResult == Result(FALSE, TRUE, EmptyText)

\* tools/__init__.py:89-98.  A name that is no registered tool gives
\* {"error": "Unknown tool: <name>"} without invoking anything; a handler
\* that raises gives {"error": str(e)}; otherwise the handler's own mapping.
execute(tool_name, outcome) ==
    IF tool_name \notin Registered
    THEN Result(TRUE, TRUE, << "Unknown tool: ", tool_name >>)
    ELSE CASE outcome = "ok"    -> Result(FALSE, TRUE, EmptyText)
           [] outcome = "err"   -> Result(TRUE, TRUE, << "e" >>)
           [] outcome = "raise" -> Result(TRUE, TRUE, << "e" >>)
           [] outcome = "bad"   -> Result(FALSE, FALSE, EmptyText)

\* Whether execute invokes a handler for this name.
InvokesHandler(tool_name) == tool_name \in Registered

\* A tool call of a model turn.
ToolCall(id, name) == [id |-> id, name |-> name]

\* default/agent.py:256-263: the calls of the merged response, in order.
ExtractToolCalls(names, it) ==
    [k \in 1..Len(names) |-> ToolCall(CallId(it, k), names[k])]

\* The filter that keeps the list as it is when no call has a name.
ValidToolCalls_allEmptyKept(calls) ==
    IF SelectSeq(calls, LAMBDA tc : tc.name # "") = <<>> THEN calls
    ELSE SelectSeq(calls, LAMBDA tc : tc.name # "")

\* The call list without the filter on the name.
ValidToolCalls_unfiltered(calls) == calls

\* default/agent.py:270: the calls with a non-empty name.
ValidToolCalls(calls) == SelectSeq(calls, LAMBDA tc : tc.name # "")

Ids(calls) == [k \in 1..Len(calls) |-> calls[k].id]

(***************************************************************************)
(* Provider faults and recovery.                                           *)
(***************************************************************************)
\* A fault: its message, and the tool name that recovery matches the
\* payload embedded in the message to (NoTool when recovery fails: not a
\* ResponseError, no payload, no JSON object, no matching tool).
Exc(msg, tool) == [msg |-> msg, tool |-> tool]

StreamFaults(it) == {Exc(FaultMessage(it), t) : t \in {NoTool, "web_search"}}

\* The TypeError json.dumps raises on a mapping that is not JSON-compatible.
DumpsError == Exc(<< "not JSON serializable" >>, NoTool)

\* default/agent.py:49-91: one recovered call with a fresh id, or none.
recover_ollama_tool_calls(exc, it) ==
    IF exc.tool = NoTool THEN <<>>
    ELSE << ToolCall(CallId(it, 0), exc.tool) >>

(***************************************************************************)
(* DefaultAgent.run.                                                       *)
(*                                                                         *)
(* pc names the place where the generator resumes:                         *)
(*   start      run not yet called                                         *)
(*   stream     in the chunk loop of the provider stream (238)             *)
(*   tools      at the head of the tool loop (285)                         *)
(*   execute    after the tool_start yield (291)                           *)
(*   flush      after tools.execute returned (294)                         *)
(*   result     after the queue was flushed and cleared (298)              *)
(*   append     after the tool_result / tool_error yield (310)             *)
(*   r_tools .. r_append  the same places in the loop over the recovered   *)
(*              calls inside the except handler (338-359)                  *)
(*   finished   the generator returned                                     *)
(*   raised     a fault left the generator                                 *)
(***************************************************************************)
AgentInit ==
    /\ pc = "start"
    /\ iteration = 0
    /\ collected_content = EmptyText
    /\ full_text = EmptyText
    /\ lc_messages = <<>>
    /\ tool_calls = <<>>
    /\ tc_index = 0
    /\ result = NoResult
    /\ pending_events = <<>>
    /\ log = <<>>

Init ==
    /\ AgentInit /\ DispatchIdle /\ AccIdle /\ TextIdle /\ SubIdle
    /\ RecoveryIdle /\ RunIdle
    /\ PeersIdle /\ RefreshIdle /\ OnboardingIdle

StreamCall == Entry("stream", "call", NoId, NoTool, EmptyText)

\* NextIteration with the system message rebuilt in place before the next
\* pass, as a loop that re-reads the profile would do.
NextIteration_refreshSystem(ft, msgs, lg) ==
    /\ full_text' = ft
    /\ lc_messages' = [msgs EXCEPT ![1].content = << "profile" >>]
    /\ IF iteration + 1 < MAX_ITERATIONS
       THEN /\ iteration' = iteration + 1
            /\ collected_content' = EmptyText
            /\ pc' = "stream"
            /\ log' = Append(lg, StreamCall)
       ELSE /\ iteration' = iteration
            /\ collected_content' = collected_content
            /\ pc' = "finished"
            /\ log' = Append(lg, Yield("done", NoId, NoTool, ft))

\* default/agent.py:230-238 and :370.  The step to the next pass of
\* `for _iteration in range(MAX_ITERATIONS)`: another pass resets
\* collected_content and calls the provider; when the range is exhausted the
\* loop is left and the statement after it yields `done`.
NextIteration(ft, msgs, lg) ==
    /\ full_text' = ft
    /\ lc_messages' = msgs
    /\ IF iteration + 1 < MAX_ITERATIONS
       THEN /\ iteration' = iteration + 1
            /\ collected_content' = EmptyText
            /\ pc' = "stream"
            /\ log' = Append(lg, StreamCall)
       ELSE /\ iteration' = iteration
            /\ collected_content' = collected_content
            /\ pc' = "finished"
            /\ log' = Append(lg, Yield("done", NoId, NoTool, ft))

\* Break with `continue` written for `break`: the loop goes on to its next
\* pass instead of leaving.
Break_continue(ft, lg) ==
    NextIteration(ft, lc_messages, lg)

\* default/agent.py:265-273 and :370.  `break`, then the `done` after the loop.
Break(ft, lg) ==
    /\ full_text' = ft
    /\ pc' = "finished"
    /\ log' = Append(lg, Yield("done", NoId, NoTool, ft))
    /\ UNCHANGED << iteration, collected_content, lc_messages >>

\* ExceptHandler with the last-pass test off by one
\* (`_iteration >= MAX_ITERATIONS`): the fault of the last pass is not
\* reported.
ExceptHandler_offByOne(exc, msgs, lg) ==
    LET ft == IF collected_content # EmptyText
              THEN full_text \o collected_content
              ELSE full_text
        recovered == recover_ollama_tool_calls(exc, iteration)
    IN  IF recovered # <<>>
        THEN /\ full_text' = ft
             /\ lc_messages' = Append(msgs, AIMessage(collected_content, Ids(recovered)))
             /\ tool_calls' = recovered
             /\ tc_index' = 1
             /\ pc' = "r_tools"
             /\ log' = Append(lg, Entry("append", "ai", NoId, NoTool, collected_content))
             /\ UNCHANGED << iteration, collected_content >>
        ELSE /\ UNCHANGED << tool_calls, tc_index >>
             /\ IF iteration >= MAX_ITERATIONS
                THEN /\ full_text' = ft
                     /\ lc_messages' = msgs
                     /\ pc' = "finished"
                     /\ log' = Append(lg, Yield("error", NoId, NoTool, exc.msg))
                     /\ UNCHANGED << iteration, collected_content >>
                ELSE NextIteration(ft, msgs, lg)

\* default/agent.py:317-368.  The except handler, up to its first yield.
ExceptHandler(exc, msgs, lg) ==
    LET ft == IF collected_content # EmptyText
              THEN full_text \o collected_content
              ELSE full_text
        recovered == recover_ollama_tool_calls(exc, iteration)
    IN  IF recovered # <<>>
        THEN /\ full_text' = ft
             /\ lc_messages' = Append(msgs, AIMessage(collected_content, Ids(recovered)))
             /\ tool_calls' = recovered
             /\ tc_index' = 1
             /\ pc' = "r_tools"
             /\ log' = Append(lg, Entry("append", "ai", NoId, NoTool, collected_content))
             /\ UNCHANGED << iteration, collected_content >>
        ELSE /\ UNCHANGED << tool_calls, tc_index >>
             /\ IF iteration >= MAX_ITERATIONS - 1
                THEN /\ full_text' = ft
                     /\ lc_messages' = msgs
                     /\ pc' = "finished"
                     /\ log' = Append(lg, Yield("error", NoId, NoTool, exc.msg))
                     /\ UNCHANGED << iteration, collected_content >>
                ELSE NextIteration(ft, msgs, lg)

\* default/agent.py:216-238.  run is called: the history is built and the
\* first pass of the loop calls the provider.
Run(messages) ==
    /\ pc = "start"
    /\ lc_messages' = BuildMessages(messages)
    /\ full_text' = EmptyText
    /\ iteration' = 0
    /\ collected_content' = EmptyText
    /\ pc' = "stream"
    /\ log' = Append(log, StreamCall)
    /\ UNCHANGED << tool_calls, tc_index, result, pending_events >>

TextYielded == Count(log, LAMBDA e : e.kind = "yield" /\ e.tag = "text_delta")

\* The items handed to the loop so far: text fragments, tool calls of model
\* turns, provider faults and queued events.
IsInput(e) ==
    \/ e.kind = "yield" /\ e.tag = "text_delta"
    \/ e.kind = "call"
    \/ e.kind = "turn" /\ e.tag = "fault"
    \/ e.kind = "queue"

InputsSoFar == Count(log, IsInput)

\* default/agent.py:238-251.  The provider delivers a chunk whose content
\* extracts to text_piece: a non-empty piece is collected and yielded.
StreamChunk(text_piece) ==
    /\ pc = "stream"
    /\ text_piece \in {EmptyText, Letter(TextYielded + 1)}
    /\ text_piece # EmptyText => InputsSoFar < MaxInputs
    /\ IF text_piece # EmptyText
       THEN /\ collected_content' = collected_content \o text_piece
            /\ log' = Append(log, Yield("text_delta", NoId, NoTool, text_piece))
       ELSE UNCHANGED << collected_content, log >>
    /\ UNCHANGED << pc, iteration, full_text, lc_messages, tool_calls,
                    tc_index, result, pending_events >>

\* default/agent.py:253-285.  The stream is exhausted; names are the names of
\* the tool calls of the merged response.
StreamEnd(names) ==
    /\ pc = "stream"
    /\ InputsSoFar + Len(names) <= MaxInputs
    /\ LET ft == full_text \o collected_content
           calls == ExtractToolCalls(names, iteration)
           valid == ValidToolCalls(calls)
           returned == [k \in 1..Len(calls) |->
                          Entry("call", "returned", calls[k].id, calls[k].name, EmptyText)]
       IN  IF calls = <<>>
           THEN /\ Break(ft, Append(log, Entry("turn", "no_calls", NoId, NoTool, EmptyText)))
                /\ UNCHANGED << tool_calls, tc_index >>
           ELSE IF valid = <<>>
           THEN /\ Break(ft, Append(log \o returned,
                                    Entry("turn", "all_malformed", NoId, NoTool, EmptyText)))
                /\ UNCHANGED << tool_calls, tc_index >>
           ELSE /\ full_text' = ft
                /\ tool_calls' = valid
                /\ tc_index' = 1
                /\ lc_messages' = Append(lc_messages, AIMessage(collected_content, Ids(valid)))
                /\ pc' = "tools"
                /\ log' = log \o returned
                            \o << Entry("turn", "calls", NoId, NoTool, EmptyText),
                                    Entry("append", "ai", NoId, NoTool, collected_content) >>
                /\ UNCHANGED << iteration, collected_content >>
    /\ UNCHANGED << result, pending_events >>

\* default/agent.py:238 and :317-368.  The provider stream raises.
StreamFault(exc) ==
    /\ pc = "stream"
    /\ InputsSoFar < MaxInputs
    /\ ExceptHandler(exc, lc_messages,
                     Append(log, Entry("turn", "fault", NoId, exc.tool, exc.msg)))
    /\ UNCHANGED << result, pending_events >>

(***************************************************************************)
(* The tool loop.  The loop over the calls of a turn (285-315) and the     *)
(* loop over the recovered calls (338-359) are the same statements; the    *)
(* operators below take the places (pc values) they move between.          *)
(***************************************************************************)
\* CurrentCall with the calls taken from the end of the list.
CurrentCall_reversed == tool_calls[Len(tool_calls) - tc_index + 1]

\* default/agent.py:285 (338).  `for tc in tool_calls`: the call in progress.
CurrentCall == tool_calls[tc_index]

QueuedSoFar ==
    Count(log, LAMBDA e : e.kind = "queue")

\* default/agent.py:286-289 (339-342).  Yield tool_start for the call.
YieldToolStart(here, next) ==
    /\ pc = here
    /\ tc_index <= Len(tool_calls)
    /\ log' = Append(log, Yield("tool_start", CurrentCall.id, CurrentCall.name, EmptyText))
    /\ pc' = next
    /\ UNCHANGED << iteration, collected_content, full_text, lc_messages,
                    tool_calls, tc_index, result, pending_events >>

\* default/agent.py:212-214.  The event callback: append to the queue.
on_tool_event(queue, event) == Append(queue, event)

RECURSIVE QueueAll(_, _)
QueueAll(queue, events) ==
    IF events = <<>> THEN queue
    ELSE QueueAll(on_tool_event(queue, Head(events)), Tail(events))

\* default/agent.py:291 (343).  tools.execute dispatches the call.  When a
\* handler is invoked it does `outcome`, and while it runs it queues the
\* events `queued` through the event callback.
CallExecute(here, next, outcome, n) ==
    /\ pc = here
    /\ LET tc == CurrentCall
           invoked == InvokesHandler(tc.name)
           queued == [k \in 1..n |-> SideEvent(QueuedSoFar + k)]
       IN  /\ invoked \/ (outcome = "ok" /\ n = 0)
           /\ InputsSoFar + n <= MaxInputs
           /\ result' = execute(tc.name, outcome)
           /\ pending_events' = QueueAll(pending_events, queued)
           /\ log' = log
                  \o << Entry("execute", "call", tc.id, tc.name, EmptyText) >>
                  \o (IF invoked
                      THEN << Entry("handler", "call", tc.id, tc.name, EmptyText) >>
                      ELSE <<>>)
                  \o [k \in 1..Len(queued) |->
                         Entry("queue", queued[k].tag, tc.id, tc.name, queued[k].text)]
    /\ pc' = next
    /\ UNCHANGED << iteration, collected_content, full_text, lc_messages,
                    tool_calls, tc_index >>

\* FlushPending without the clear(): the queue keeps what it yielded.
FlushPending_noClear(here, next) ==
    /\ pc = here
    /\ log' = log \o [k \in 1..Len(pending_events) |->
                        Yield(pending_events[k].tag, NoId, NoTool, pending_events[k].text)]
    /\ pc' = next
    /\ UNCHANGED << iteration, collected_content, full_text, lc_messages,
                    tool_calls, tc_index, result, pending_events >>

\* default/agent.py:294-296 (344-346).  Yield the queued events in order,
\* then clear the queue.
FlushPending(here, next) ==
    /\ pc = here
    /\ log' = log \o [k \in 1..Len(pending_events) |->
                        Yield(pending_events[k].tag, NoId, NoTool, pending_events[k].text)]
    /\ pending_events' = <<>>
    /\ pc' = next
    /\ UNCHANGED << iteration, collected_content, full_text, lc_messages,
                    tool_calls, tc_index, result >>

\* YieldToolResult without the `else`: an error mapping yields tool_error
\* and then tool_result as well.
YieldToolResult_both(here, next) ==
    /\ pc = here
    /\ log' = log
          \o (IF result.error
              THEN << Yield("tool_error", tool_calls[tc_index].id,
                            tool_calls[tc_index].name, result.msg) >>
              ELSE <<>>)
          \o << Yield("tool_result", tool_calls[tc_index].id,
                      tool_calls[tc_index].name, EmptyText) >>
    /\ pc' = next
    /\ UNCHANGED << iteration, collected_content, full_text, lc_messages,
                    tool_calls, tc_index, result, pending_events >>

\* default/agent.py:298-307 (347-356).  Yield tool_error when the mapping has
\* the key "error", tool_result otherwise.
YieldToolResult(here, next) ==
    /\ pc = here
    /\ log' = Append(log,
                IF result.error
                THEN Yield("tool_error", CurrentCall.id, CurrentCall.name, result.msg)
                ELSE Yield("tool_result", CurrentCall.id, CurrentCall.name, EmptyText))
    /\ pc' = next
    /\ UNCHANGED << iteration, collected_content, full_text, lc_messages,
                    tool_calls, tc_index, result, pending_events >>

ToolAppended(lg) ==
    Append(lg, Entry("append", "tool", CurrentCall.id, CurrentCall.name, EmptyText))

DumpsRaised(lg) ==
    Append(lg, Entry("raise", "json.dumps", CurrentCall.id, CurrentCall.name, EmptyText))

ToolStart == YieldToolStart("tools", "execute")

ToolExecute(outcome, n) == CallExecute("execute", "flush", outcome, n)

ToolFlush == FlushPending("flush", "result")

ToolResult == YieldToolResult("result", "append")

\* ToolAppend that treats an error mapping as fatal: it yields `error` and
\* returns instead of recording the result and going on.
ToolAppend_abortOnError ==
    /\ pc = "append"
    /\ IF result.error
       THEN /\ pc' = "finished"
            /\ log' = Append(log, Yield("error", NoId, NoTool, result.msg))
            /\ UNCHANGED << iteration, collected_content, full_text,
                            lc_messages, tool_calls, tc_index >>
       ELSE IF result.serializable
       THEN LET msgs == Append(lc_messages, ToolMessage(tool_calls[tc_index].id))
            IN  IF tc_index < Len(tool_calls)
                THEN /\ lc_messages' = msgs
                     /\ tc_index' = tc_index + 1
                     /\ pc' = "tools"
                     /\ log' = ToolAppended(log)
                     /\ UNCHANGED << iteration, collected_content, full_text,
                                     tool_calls >>
                ELSE /\ NextIteration(full_text, msgs, ToolAppended(log))
                     /\ UNCHANGED << tool_calls, tc_index >>
       ELSE ExceptHandler(DumpsError, lc_messages, DumpsRaised(log))
    /\ UNCHANGED << result, pending_events >>

\* default/agent.py:310-315, then the next call, the next pass of the outer
\* loop, or, when json.dumps raises on the mapping, the except handler.
ToolAppend ==
    /\ pc = "append"
    /\ IF result.serializable
       THEN LET msgs == Append(lc_messages, ToolMessage(CurrentCall.id))
            IN  IF tc_index < Len(tool_calls)
                THEN /\ lc_messages' = msgs
                     /\ tc_index' = tc_index + 1
                     /\ pc' = "tools"
                     /\ log' = ToolAppended(log)
                     /\ UNCHANGED << iteration, collected_content, full_text,
                                     tool_calls >>
                ELSE /\ NextIteration(full_text, msgs, ToolAppended(log))
                     /\ UNCHANGED << tool_calls, tc_index >>
       ELSE ExceptHandler(DumpsError, lc_messages, DumpsRaised(log))
    /\ UNCHANGED << result, pending_events >>

RecoveredToolStart == YieldToolStart("r_tools", "r_execute")

RecoveredToolExecute(outcome, n) ==
    CallExecute("r_execute", "r_flush", outcome, n)

RecoveredToolFlush == FlushPending("r_flush", "r_result")

RecoveredToolResult == YieldToolResult("r_result", "r_append")

\* default/agent.py:357-361, then the next recovered call or `continue`.
\* Inside the except handler nothing catches a fault of json.dumps: it
\* leaves the generator.
RecoveredToolAppend ==
    /\ pc = "r_append"
    /\ IF result.serializable
       THEN LET msgs == Append(lc_messages, ToolMessage(CurrentCall.id))
            IN  IF tc_index < Len(tool_calls)
                THEN /\ lc_messages' = msgs
                     /\ tc_index' = tc_index + 1
                     /\ pc' = "r_tools"
                     /\ log' = ToolAppended(log)
                     /\ UNCHANGED << iteration, collected_content, full_text,
                                     tool_calls >>
                ELSE /\ NextIteration(full_text, msgs, ToolAppended(log))
                     /\ UNCHANGED << tool_calls, tc_index >>
       ELSE /\ pc' = "raised"
            /\ log' = DumpsRaised(log)
            /\ UNCHANGED << iteration, collected_content, full_text,
                            lc_messages, tool_calls, tc_index >>
    /\ UNCHANGED << result, pending_events >>

Next ==
    \/ \E messages \in InputMessages :
          Run(messages) /\ UNCHANGED notAgent
    \/ \E text_piece \in {EmptyText} \cup {Letter(k) : k \in 1..MaxInputs} :
          StreamChunk(text_piece) /\ UNCHANGED notAgent
    \/ \E names \in BoundedSeq(CallNames, MaxInputs) :
          StreamEnd(names) /\ UNCHANGED notAgent
    \/ \E exc \in StreamFaults(iteration) :
          StreamFault(exc) /\ UNCHANGED notAgent
    \/ ToolStart /\ UNCHANGED notAgent
    \/ \E outcome \in HandlerOutcomes, n \in 0..MaxInputs :
          ToolExecute(outcome, n) /\ UNCHANGED notAgent
    \/ ToolFlush /\ UNCHANGED notAgent
    \/ ToolResult /\ UNCHANGED notAgent
    \/ ToolAppend /\ UNCHANGED notAgent
    \/ RecoveredToolStart /\ UNCHANGED notAgent
    \/ \E outcome \in HandlerOutcomes, n \in 0..MaxInputs :
          RecoveredToolExecute(outcome, n) /\ UNCHANGED notAgent
    \/ RecoveredToolFlush /\ UNCHANGED notAgent
    \/ RecoveredToolResult /\ UNCHANGED notAgent
    \/ RecoveredToolAppend /\ UNCHANGED notAgent

Spec == Init /\ [][Next]_vars

(***************************************************************************)
(* Reading the log.                                                        *)
(***************************************************************************)
Ended == pc \in {"finished", "raised"}

IsTerminal(e) == e.kind = "yield" /\ e.tag \in {"done", "error"}

IsToolOutcome(e) == e.kind = "yield" /\ e.tag \in {"tool_result", "tool_error"}

IsToolStart(e) == e.kind = "yield" /\ e.tag = "tool_start"

IsSideEvent(e) ==
    e.kind = "yield" /\ e.tag \in {"search_result_added", "search_progress"}

StreamCalls == Count(log, LAMBDA e : e.kind = "stream")

Turns == SelectSeq(log, LAMBDA e : e.kind = "turn")

RECURSIVE ConcatText(_)
ConcatText(es) ==
    IF es = <<>> THEN EmptyText ELSE Head(es).text \o ConcatText(Tail(es))

TextDeltas == SelectSeq(log, LAMBDA e : e.kind = "yield" /\ e.tag = "text_delta")

(***************************************************************************)
(* C1: every run of DefaultAgent.run emits exactly one terminal event      *)
(* (done or error), and emits nothing after it: a terminal event is the    *)
(* last event, and a run that has ended has one.                           *)
(***************************************************************************)
C1_ExactlyOneTerminalLast ==
    /\ \A i \in 1..Len(Events) : IsTerminal(Events[i]) => i = Len(Events)
    /\ Ended => (Events # <<>> /\ IsTerminal(Events[Len(Events)]))

(***************************************************************************)
(* C2: a run in which every model turn up to the iteration cap returned a  *)
(* validly named tool call ends with `error` and emits no `done`.          *)
(***************************************************************************)
EveryTurnCalledUpToCap ==
    /\ Len(Turns) = MAX_ITERATIONS
    /\ \A i \in 1..Len(Turns) : Turns[i].tag = "calls"

C2_CapExhaustedEndsWithError ==
    (Ended /\ EveryTurnCalledUpToCap) =>
        /\ Events[Len(Events)].tag = "error"
        /\ \A i \in 1..Len(Events) : Events[i].tag # "done"

(***************************************************************************)
(* C3: a run whose first model turn completes without a fault and with no  *)
(* tool call emits zero or more text_delta events, then one done, and      *)
(* nothing else.                                                           *)
(***************************************************************************)
FirstTurnWithoutCalls == Turns # <<>> /\ Turns[1].tag = "no_calls"

C3_NoCallsFirstTurnTextThenDone ==
    FirstTurnWithoutCalls =>
        /\ pc = "finished"
        /\ Events # <<>>
        /\ Events[Len(Events)].tag = "done"
        /\ \A i \in 1..(Len(Events) - 1) : Events[i].tag = "text_delta"

C3_Witness ==
    /\ FirstTurnWithoutCalls
    /\ Len(Events) = 3
    /\ Events[1].tag = "text_delta"
    /\ Events[3].tag = "done"

(***************************************************************************)
(* C4: the content of `done` is the concatenation, in emission order, of   *)
(* the contents of all text_delta events of the run: the text of every     *)
(* turn, faulted turns included, is counted exactly once.                  *)
(***************************************************************************)
C4_DoneIsConcatenationOfDeltas ==
    \A i \in 1..Len(Events) :
        Events[i].tag = "done" => Events[i].text = ConcatText(TextDeltas)

(***************************************************************************)
(* C5: every tool_result / tool_error is preceded by a tool_start with the *)
(* same call id, and every tool_start is followed by exactly one           *)
(* tool_result or tool_error with that id (one once the run has gone past  *)
(* the call, never two).                                                   *)
(***************************************************************************)
\* Positions of the log at which the events of call id were yielded.
OutcomesOf(id) ==
    {p \in 1..Len(log) : IsToolOutcome(log[p]) /\ log[p].id = id}

StartsOf(id) ==
    {p \in 1..Len(log) : IsToolStart(log[p]) /\ log[p].id = id}

\* The call whose tool_start was yielded and whose outcome is still to come.
InFlight(id) ==
    /\ pc \in {"execute", "flush", "result", "r_execute", "r_flush", "r_result"}
    /\ CurrentCall.id = id

C5_StartAndOutcomePaired ==
    /\ \A p \in 1..Len(log) :
          IsToolOutcome(log[p]) =>
              \E q \in 1..(p - 1) : IsToolStart(log[q]) /\ log[q].id = log[p].id
    /\ \A p \in 1..Len(log) :
          IsToolStart(log[p]) =>
              LET id == log[p].id
                  outcomes == OutcomesOf(id)
              IN  /\ StartsOf(id) = {p}
                  /\ Cardinality(outcomes) <= 1
                  /\ \A q \in outcomes : q > p
                  /\ ~InFlight(id) => Cardinality(outcomes) = 1

C5_Witness ==
    /\ pc = "finished"
    /\ \E i, j \in 1..Len(Events) :
          /\ i < j
          /\ Events[i].tag = "tool_error"
          /\ Events[j].tag = "tool_result"

(***************************************************************************)
(* History lookups used by the claims about the calls of one turn.         *)
(***************************************************************************)
\* The call lists of the assistant turns the run appended.
CallLists ==
    {lc_messages[i].calls : i \in {j \in 1..Len(lc_messages) :
                                       lc_messages[j].role = "ai"
                                       /\ lc_messages[j].calls # <<>>}}

\* Positions of the log at which something is done for call id.
ToolStartAt(id) == StartsOf(id)
ExecuteAt(id) ==
    {p \in 1..Len(log) : log[p].kind \in {"execute", "handler"} /\ log[p].id = id}
OutcomeAt(id) == OutcomesOf(id)
ToolAppendAt(id) ==
    {p \in 1..Len(log) : log[p].kind = "append" /\ log[p].tag = "tool" /\ log[p].id = id}

(***************************************************************************)
(* C6: the calls of one turn are dispatched one after the other in the     *)
(* order the model returned them: nothing is done for call k+1 (no         *)
(* tool_start, no execute, no handler) before the tool_result / tool_error *)
(* of call k was emitted and its tool-result turn appended.                *)
(***************************************************************************)
C6_CallsDispatchedSequentially ==
    \A calls \in CallLists :
        \A k \in 1..(Len(calls) - 1) :
            \A p \in ToolStartAt(calls[k + 1]) \cup ExecuteAt(calls[k + 1]) :
                /\ \E q \in ToolStartAt(calls[k]) : q < p
                /\ \E q \in ExecuteAt(calls[k]) : q < p
                /\ \E q \in OutcomeAt(calls[k]) : q < p
                /\ \E q \in ToolAppendAt(calls[k]) : q < p

C6_Witness ==
    /\ Ended
    /\ \E calls \in CallLists :
          /\ Len(calls) = 2
          /\ ToolAppendAt(calls[1]) # {}
          /\ ToolAppendAt(calls[2]) # {}

(***************************************************************************)
(* C7: the events a handler queues while call c is dispatched are emitted  *)
(* after tool_start of c and before tool_result / tool_error of c, in the  *)
(* order they were queued, and the queue is empty again before the outcome *)
(* event of c is emitted.                                                  *)
(***************************************************************************)
Queued == SelectSeq(log, LAMBDA e : e.kind = "queue")

SideEventsYielded == SelectSeq(log, IsSideEvent)

QueueAt(id) == {p \in 1..Len(log) : log[p].kind = "queue" /\ log[p].id = id}

\* The positions at which the event queued at position q was yielded.
YieldedAt(q) ==
    {p \in 1..Len(log) : IsSideEvent(log[p]) /\ log[p].tag = log[q].tag
                         /\ log[p].text = log[q].text}

C7_QueuedEventsFlushedBeforeOutcome ==
    \* the queue holds something only between execute and the flush
    /\ pc \notin {"flush", "r_flush"} => pending_events = <<>>
    \* what was yielded is what was queued, in the same order
    /\ pc \notin {"flush", "r_flush"} =>
          /\ Len(SideEventsYielded) = Len(Queued)
          /\ \A k \in 1..Len(Queued) :
                /\ SideEventsYielded[k].tag = Queued[k].tag
                /\ SideEventsYielded[k].text = Queued[k].text
    \* each one between the tool_start and the outcome of its call
    /\ \A q \in 1..Len(log) :
          log[q].kind = "queue" =>
              \A p \in YieldedAt(q) :
                  /\ \E r \in ToolStartAt(log[q].id) : r < q /\ q < p
                  /\ \A r \in OutcomeAt(log[q].id) : p < r
    /\ \A c \in {log[q].id : q \in 1..Len(log)} :
          (QueueAt(c) # {} /\ OutcomeAt(c) # {}) =>
              \A q \in QueueAt(c) : \E p \in YieldedAt(q) : TRUE

C7_Witness ==
    /\ pc = "append"
    /\ Len(Queued) = 2
    /\ Queued[1].id = Queued[2].id
    /\ OutcomeAt(Queued[1].id) # {}
    /\ Len(SideEventsYielded) = 2

(***************************************************************************)
(* C8: a per-call fault does not abort the run.  After the tool_error of a *)
(* call (unregistered name, handler that raised or returned an error) the  *)
(* loop appends the tool-result turn of that call, then dispatches the     *)
(* next call of the same turn or, after the last call, goes on to the next *)
(* pass of the loop; it emits no `error` for it.                           *)
(***************************************************************************)
\* The call list that holds id, and the position of id in it.
CallListOf(id) ==
    CHOOSE calls \in CallLists : \E k \in 1..Len(calls) : calls[k] = id

IndexIn(calls, id) == CHOOSE k \in 1..Len(calls) : calls[k] = id

IsToolError(e) == e.kind = "yield" /\ e.tag = "tool_error"

C8_ToolErrorDoesNotAbort ==
    \A p \in 1..Len(log) :
        IsToolError(log[p]) =>
            LET id == log[p].id
                calls == CallListOf(id)
                k == IndexIn(calls, id)
            IN  /\ p = Len(log) => pc \in {"append", "r_append"}
                /\ p < Len(log) =>
                      /\ log[p + 1].kind = "append"
                      /\ log[p + 1].tag = "tool"
                      /\ log[p + 1].id = id
                /\ p + 1 = Len(log) =>
                      /\ k < Len(calls)
                      /\ pc \in {"tools", "r_tools"}
                      /\ CurrentCall.id = calls[k + 1]
                /\ p + 1 < Len(log) =>
                      IF k < Len(calls)
                      THEN IsToolStart(log[p + 2]) /\ log[p + 2].id = calls[k + 1]
                      ELSE \/ log[p + 2] = StreamCall
                           \/ (log[p + 2].kind = "yield" /\ log[p + 2].tag = "done")

C8_Witness ==
    /\ Ended
    /\ \E p, q \in 1..Len(log) :
          /\ p < q
          /\ IsToolError(log[p]) /\ log[p].name = "bogus"
          /\ Len(CallListOf(log[p].id)) = 2
          /\ IndexIn(CallListOf(log[p].id), log[p].id) = 1
          /\ IsToolError(log[q]) /\ log[q].name \in Registered
          /\ \E r \in (q + 1)..Len(log) : log[r] = StreamCall

(***************************************************************************)
(* C9: after a provider fault from which no call is recovered the loop     *)
(* calls the provider again without emitting `error` while passes remain;  *)
(* on the last pass it emits `error` with that fault's message and ends    *)
(* without `done`.  `error` is emitted on the last pass only, and a run in *)
(* which every provider call faults unrecoverably makes MAX_ITERATIONS     *)
(* provider calls.                                                         *)
(***************************************************************************)
IsUnrecoveredFault(e) == e.kind = "turn" /\ e.tag = "fault" /\ e.name = NoTool

StreamCallsBefore(p) ==
    Cardinality({q \in 1..(p - 1) : log[q].kind = "stream"})

C9_UnrecoveredFaultRetriesUntilLastPass ==
    /\ \A p \in 1..Len(log) :
          IsUnrecoveredFault(log[p]) =>
              /\ p < Len(log)
              /\ IF StreamCallsBefore(p) < MAX_ITERATIONS
                 THEN log[p + 1] = StreamCall
                 ELSE /\ log[p + 1] = Yield("error", NoId, NoTool, log[p].text)
                      /\ p + 1 = Len(log)
                      /\ pc = "finished"
                      /\ \A i \in 1..Len(Events) : Events[i].tag # "done"
    /\ \A i \in 1..Len(Events) :
          Events[i].tag = "error" => StreamCalls = MAX_ITERATIONS
    /\ (Ended /\ Turns # <<>> /\ \A i \in 1..Len(Turns) : IsUnrecoveredFault(Turns[i]))
          => StreamCalls = MAX_ITERATIONS

C9_Witness ==
    /\ pc = "finished"
    /\ Len(Turns) = MAX_ITERATIONS
    /\ \A i \in 1..Len(Turns) : IsUnrecoveredFault(Turns[i])
    /\ Events = << Yield("error", NoId, NoTool, FaultMessage(MAX_ITERATIONS - 1)) >>

(***************************************************************************)
(* C10: every run makes at most MAX_ITERATIONS provider stream calls and   *)
(* then emits its terminal event.                                          *)
(***************************************************************************)
C10_BoundedCallsThenTerminal ==
    /\ StreamCalls <= MAX_ITERATIONS
    /\ Ended => \E i \in 1..Len(Events) : IsTerminal(Events[i])

\* The part of C10 that the code keeps: the number of provider calls.
ProviderCallsBounded == StreamCalls <= MAX_ITERATIONS

(***************************************************************************)
(* Tool dispatch with its arguments: AgentTools.execute                    *)
(* (backend/agent/tools/__init__.py:89-98).                                *)
(***************************************************************************)
\* None.
Null == "null"

\* A positional parameter has no default; the handler sees Default for an
\* optional parameter the call does not pass.
Default == "default"

\* Parameters of a handler (`def web_search(self, query, num_results=5)`):
\* those without a default, those with one, whether it takes **kwargs, and
\* the fields of its args_schema.
Signature(required, optional, var_kw, schema) ==
    [required |-> required, optional |-> optional, var_kw |-> var_kw,
     schema |-> schema]

Params(required, optional) ==
    Signature(required, optional, FALSE, required \cup optional)

CreateJobFields ==
    {"company", "title", "url", "status", "notes", "salary_min", "salary_max",
     "location", "remote_type", "tags", "contact_name", "contact_email",
     "source", "requirements", "nice_to_haves", "job_fit"}

Signatures(tool) ==
    CASE tool = "extract_application_todos" -> Params({"job_id"}, {})
      [] tool = "job_search" ->
            Params({"query"}, {"location", "remote_only", "salary_min",
                               "salary_max", "num_results", "provider"})
      [] tool = "create_job" -> Signature({}, {}, TRUE, CreateJobFields)
      [] tool = "list_jobs" ->
            Params({}, {"limit", "status", "company", "title", "url"})
      [] tool = "read_user_profile" -> Params({}, {})
      [] tool = "update_user_profile" -> Params({"content"}, {})
      [] tool = "read_resume" -> Params({}, {})
      [] tool = "run_job_search" ->
            Params({"query"}, {"location", "remote_only", "salary_min",
                               "salary_max"})
      [] tool = "scrape_url" -> Params({"url"}, {})
      [] tool = "add_search_result" ->
            Params({"company", "title", "job_fit"},
                   {"url", "salary_min", "salary_max", "location",
                    "remote_type", "source", "description", "requirements",
                    "nice_to_haves", "fit_reason"})
      [] tool = "list_search_results" -> Params({}, {"min_fit"})
      [] tool = "web_search" -> Params({"query"}, {"num_results"})

\* Attributes of an AgentTools object that are no tools: methods without
\* the mark the decorator sets, and plain data.
Methods == {"execute", "get_tool_definitions"}
DataAttributes == {"search_api_key", "adzuna_country"}

\* getattr(self, tool_name, None), by the kind of what it finds.
getattr(tool_name) ==
    IF tool_name \in Registered THEN "tool"
    ELSE IF tool_name \in Methods THEN "method"
    ELSE IF tool_name \in DataAttributes THEN "data"
    ELSE "none"

\* method(**arguments) binds when every parameter without a default is
\* passed and every key passed is a parameter (or the handler takes
\* **kwargs); otherwise the call raises TypeError before the body runs.
Binds(sig, arguments) ==
    /\ sig.required \subseteq DOMAIN arguments
    /\ sig.var_kw \/ DOMAIN arguments \subseteq (sig.required \cup sig.optional)

\* What the handler's body sees: the arguments passed, and the default of
\* every optional parameter that was not passed.
Bound(sig, arguments) ==
    [k \in DOMAIN arguments \cup sig.optional |->
        IF k \in DOMAIN arguments THEN arguments[k] ELSE Default]

NoArguments == << >>

TypeErrorMessage == << "TypeError" >>
HandlerFaultMessage == << "e" >>
UnknownToolMessage(tool_name) == << "Unknown tool: ", tool_name >>

\* What a call of execute did: whether a fault left it, the mapping it
\* returned (as Result), whether the handler's body ran and with what.
Reply(raised, error, serializable, msg, invoked, seen) ==
    [returned |-> TRUE, raised |-> raised, error |-> error,
     serializable |-> serializable, msg |-> msg, invoked |-> invoked,
     seen |-> seen]

\* execute_call without the test for the decorator's mark: any attribute
\* that exists is called.
execute_call_noMarkTest(tool_name, arguments, outcome) ==
    LET kind == getattr(tool_name)
        sig == Signatures(tool_name)
    IN  IF kind = "none"
        THEN Reply(FALSE, TRUE, TRUE, UnknownToolMessage(tool_name), FALSE, NoArguments)
        ELSE IF kind # "tool" \/ ~Binds(sig, arguments)
        THEN Reply(FALSE, TRUE, TRUE, TypeErrorMessage, FALSE, NoArguments)
        ELSE CASE outcome = "ok" ->
                    Reply(FALSE, FALSE, TRUE, EmptyText, TRUE, Bound(sig, arguments))
               [] outcome = "err" ->
                    Reply(FALSE, TRUE, TRUE, HandlerFaultMessage, TRUE, Bound(sig, arguments))
               [] outcome = "raise" ->
                    Reply(FALSE, TRUE, TRUE, HandlerFaultMessage, TRUE, Bound(sig, arguments))
               [] outcome = "bad" ->
                    Reply(FALSE, FALSE, FALSE, EmptyText, TRUE, Bound(sig, arguments))

\* execute_call without the try: a fault of the call leaves execute.
execute_call_noTry(tool_name, arguments, outcome) ==
    LET kind == getattr(tool_name)
        sig == Signatures(tool_name)
    IN  IF kind # "tool"
        THEN Reply(FALSE, TRUE, TRUE, UnknownToolMessage(tool_name), FALSE, NoArguments)
        ELSE IF ~Binds(sig, arguments)
        THEN Reply(TRUE, FALSE, TRUE, TypeErrorMessage, FALSE, NoArguments)
        ELSE CASE outcome = "ok" ->
                    Reply(FALSE, FALSE, TRUE, EmptyText, TRUE, Bound(sig, arguments))
               [] outcome = "err" ->
                    Reply(FALSE, TRUE, TRUE, HandlerFaultMessage, TRUE, Bound(sig, arguments))
               [] outcome = "raise" ->
                    Reply(TRUE, FALSE, TRUE, HandlerFaultMessage, TRUE, Bound(sig, arguments))
               [] outcome = "bad" ->
                    Reply(FALSE, FALSE, FALSE, EmptyText, TRUE, Bound(sig, arguments))

\* tools/__init__.py:89-98.  The attribute is looked up; without one, or
\* with one that is no tool, the error mapping is returned.  Otherwise the
\* handler is called with the arguments as they are; a fault of the call
\* (of the binding or of the body) is caught and returned as {"error": str(e)}.
execute_call(tool_name, arguments, outcome) ==
    LET kind == getattr(tool_name)
        sig == Signatures(tool_name)
    IN  IF kind # "tool"
        THEN Reply(FALSE, TRUE, TRUE, UnknownToolMessage(tool_name), FALSE, NoArguments)
        ELSE IF ~Binds(sig, arguments)
        THEN Reply(FALSE, TRUE, TRUE, TypeErrorMessage, FALSE, NoArguments)
        ELSE CASE outcome = "ok" ->
                    Reply(FALSE, FALSE, TRUE, EmptyText, TRUE, Bound(sig, arguments))
               [] outcome = "err" ->
                    Reply(FALSE, TRUE, TRUE, HandlerFaultMessage, TRUE, Bound(sig, arguments))
               [] outcome = "raise" ->
                    Reply(FALSE, TRUE, TRUE, HandlerFaultMessage, TRUE, Bound(sig, arguments))
               [] outcome = "bad" ->
                    Reply(FALSE, FALSE, FALSE, EmptyText, TRUE, Bound(sig, arguments))

\* Calls of execute that are tried: tools with and without parameters and
\* with **kwargs, a name that is nothing, a method, data, the empty name.
DispatchNames ==
    {"web_search", "read_resume", "create_job", "bogus", "execute",
     "search_api_key", ""}

ArgKeys == {"query", "num_results", "junk"}
ArgValues == {"v", Null}
ArgumentMaps == UNION {[K -> ArgValues] : K \in SUBSET ArgKeys}

Request(tool_name, arguments, outcome) ==
    [tool_name |-> tool_name, arguments |-> arguments, outcome |-> outcome]

\* One call of execute.
Dispatch(tool_name, arguments, outcome) ==
    /\ request = NoRequest
    /\ request' = Request(tool_name, arguments, outcome)
    /\ reply' = execute_call(tool_name, arguments, outcome)
    /\ UNCHANGED notDispatch

DispatchNext ==
    \E tool_name \in DispatchNames, arguments \in ArgumentMaps,
       outcome \in HandlerOutcomes :
          Dispatch(tool_name, arguments, outcome)

DispatchSpec == Init /\ [][DispatchNext]_vars

Dispatched == request # NoRequest

(***************************************************************************)
(* C11: execute called with a name that is no registered tool (the name of *)
(* an attribute that is no tool included) raises nothing, invokes no       *)
(* handler and returns {"error": "Unknown tool: <name>"}.                  *)
(***************************************************************************)
C11_UnknownToolReturnsError ==
    (Dispatched /\ request.tool_name \notin Registered) =>
        /\ ~reply.raised
        /\ ~reply.invoked
        /\ reply.error
        /\ reply.msg = << "Unknown tool: ", request.tool_name >>

C11_Witness ==
    /\ Dispatched
    /\ request.tool_name = "execute"
    /\ reply.error /\ ~reply.invoked

(***************************************************************************)
(* C12: execute lets no fault of the invocation of a registered handler    *)
(* out, a fault of passing arguments that do not fit the signature         *)
(* included: it returns {"error": message} with the fault's message.       *)
(***************************************************************************)
C12_HandlerFaultReturnedAsError ==
    (Dispatched /\ request.tool_name \in Registered) =>
        LET fits == Binds(Signatures(request.tool_name), request.arguments)
        IN  /\ ~reply.raised
            /\ ~fits => (reply.error /\ reply.msg = TypeErrorMessage)
            /\ (fits /\ request.outcome = "raise") =>
                  (reply.error /\ reply.msg = HandlerFaultMessage)

C12_Witness ==
    /\ Dispatched
    /\ request.tool_name = "web_search"
    /\ request.outcome = "raise"
    /\ reply.invoked /\ reply.error /\ ~reply.raised

(***************************************************************************)
(* C13: dispatch drops the argument keys the tool's schema does not know   *)
(* and the keys whose value is null before it invokes the handler: the     *)
(* handler is invoked with the remaining arguments, and the result is that *)
(* of the call without those keys.                                         *)
(***************************************************************************)
\* The arguments without the keys unknown to the schema and the null ones.
Remaining(tool_name, arguments) ==
    LET keep == {k \in DOMAIN arguments :
                    /\ k \in Signatures(tool_name).schema
                    /\ arguments[k] # Null}
    IN  [k \in keep |-> arguments[k]]

C13_UnknownAndNullKeysDropped ==
    (Dispatched /\ request.tool_name \in Registered) =>
        LET remaining == Remaining(request.tool_name, request.arguments)
            without == execute_call(request.tool_name, remaining, request.outcome)
        IN  /\ reply.invoked = without.invoked
            /\ reply.seen = without.seen
            /\ reply.error = without.error
            /\ reply.msg = without.msg

(***************************************************************************)
(* Tool-call chunks of one turn: _accumulate_tool_call_chunk and           *)
(* _finalize_tool_calls (backend/agent/langchain_agent.py:245-314).        *)
(***************************************************************************)
\* Most tool-call chunks of one turn.
MaxFragments == 2

\* A chunk without an index (index None).
NoIndex == 0 - 1

\* Indexes, ids, name fragments and argument fragments of the chunks tried.
\* A missing id is Null; a missing name or args fragment is the empty
\* string (the code tests both with `if x:`).  Argument fragments are
\* pieces of JSON text, a character being one of `{`, `}` and k, where k
\* stands for a member ("k": 1).
ChunkIndexes == {NoIndex, 0, 1}
ChunkIds == {Null, "c", "d"}
NameFragments == {EmptyText, << "w" >>, << "s" >>}
ArgsFragments == {EmptyText, << "{" >>, << "k", "}" >>}

Chunk(index, id, name, args) ==
    [index |-> index, id |-> id, name |-> name, args |-> args]

Chunks ==
    {Chunk(i, d, n, a) : i \in ChunkIndexes, d \in ChunkIds,
                         n \in NameFragments, a \in ArgsFragments}

\* langchain_agent.py:251-254.
ToolCallAccumulator == [id |-> Null, name |-> EmptyText, args_parts |-> <<>>]

\* accumulate with `acc.name = tc_name` for `acc.name += tc_name`.
accumulate_tool_call_chunk_nameOverwritten(list, chunk) ==
    LET idx == IF chunk.index = NoIndex THEN 0 ELSE chunk.index
        extended == list \o [k \in 1..(idx + 1 - Len(list)) |-> ToolCallAccumulator]
        acc == extended[idx + 1]
    IN  [extended EXCEPT ![idx + 1] =
            [id |-> IF chunk.id # Null THEN chunk.id ELSE acc.id,
             name |-> IF chunk.name # EmptyText THEN chunk.name ELSE acc.name,
             args_parts |-> IF chunk.args # EmptyText
                            THEN Append(acc.args_parts, chunk.args)
                            ELSE acc.args_parts]]

\* langchain_agent.py:257-286.  The list is extended up to the chunk's
\* index (0 without one); the id replaces, the name is appended to, and the
\* args fragment is added to the parts of the accumulator at that index.
accumulate_tool_call_chunk(list, chunk) ==
    LET idx == IF chunk.index = NoIndex THEN 0 ELSE chunk.index
        extended == list \o [k \in 1..(idx + 1 - Len(list)) |-> ToolCallAccumulator]
        acc == extended[idx + 1]
    IN  [extended EXCEPT ![idx + 1] =
            [id |-> IF chunk.id # Null THEN chunk.id ELSE acc.id,
             name |-> IF chunk.name # EmptyText THEN acc.name \o chunk.name ELSE acc.name,
             args_parts |-> IF chunk.args # EmptyText
                            THEN Append(acc.args_parts, chunk.args)
                            ELSE acc.args_parts]]

\* "".join(parts).
RECURSIVE Join(_)
Join(parts) == IF parts = <<>> THEN EmptyText ELSE Head(parts) \o Join(Tail(parts))

\* json.loads on the JSON text of the model.  A text is a sequence of
\* characters; the objects are {} and {k}, k standing for a key with a
\* scalar value, and {kO} for a key whose value is an object O; every other
\* text raises JSONDecodeError.  A mapping is given by its keys.
EmptyMapping == {}

RECURSIVE IsJsonObject(_)
IsJsonObject(t) ==
    /\ Len(t) >= 2
    /\ t[1] = "{"
    /\ t[Len(t)] = "}"
    /\ LET inner == [i \in 1..(Len(t) - 2) |-> t[i + 1]]
       IN  \/ inner = <<>>
           \/ inner = << "k" >>
           \/ Len(inner) >= 3 /\ inner[1] = "k" /\ IsJsonObject(Tail(inner))

json_loads(text) ==
    IF IsJsonObject(text)
    THEN [ok |-> TRUE, value |-> IF Len(text) = 2 THEN EmptyMapping ELSE {"k"}]
    ELSE [ok |-> FALSE, value |-> EmptyMapping]

\* str(uuid.uuid4()) for the call at position k of the accumulated list.
Uuids == << "u1", "u2" >>
Uuid(k) == Uuids[k]

FinalToolCall(id, name, args) == [id |-> id, name |-> name, args |-> args]

Finalized(raised, calls) ==
    [finalized |-> TRUE, raised |-> raised, calls |-> calls]

\* Positions of the accumulators with a non-empty name, in order.
NamedPositions(list) ==
    SelectSeq([k \in 1..Len(list) |-> k], LAMBDA k : list[k].name # EmptyText)

\* langchain_agent.py:306-313, for the accumulator at position k.
FinalizeOne(list, k) ==
    LET acc == list[k]
        args_str == Join(acc.args_parts)
        parsed == json_loads(args_str)
    IN  FinalToolCall(IF acc.id # Null THEN acc.id ELSE Uuid(k),
                      acc.name,
                      IF args_str # EmptyText /\ parsed.ok
                      THEN parsed.value
                      ELSE EmptyMapping)

\* finalize without the try around json.loads: text that is no JSON
\* document makes it raise.
finalize_tool_calls_noTry(list) ==
    LET named == NamedPositions(list)
    IN  IF \E i \in 1..Len(named) :
              LET args_str == Join(list[named[i]].args_parts)
              IN  args_str # EmptyText /\ ~json_loads(args_str).ok
        THEN Finalized(TRUE, <<>>)
        ELSE Finalized(FALSE, [i \in 1..Len(named) |-> FinalizeOne(list, named[i])])

\* finalize that stops at the first accumulator without a name.
finalize_tool_calls_stopsAtUnnamed(list) ==
    LET named == SelectSeq([k \in 1..Len(list) |-> k],
                           LAMBDA k : \A j \in 1..k : list[j].name # EmptyText)
    IN  Finalized(FALSE, [i \in 1..Len(named) |-> FinalizeOne(list, named[i])])

\* langchain_agent.py:299-314.  Accumulators without a name are skipped;
\* the others give one call each, in order.
finalize_tool_calls(list) ==
    LET named == NamedPositions(list)
    IN  Finalized(FALSE, [i \in 1..Len(named) |-> FinalizeOne(list, named[i])])

\* langchain_agent.py:469-471.  A tool-call chunk of the stream is merged.
AccumulateChunk(chunk) ==
    /\ final_tool_calls = NotFinalized
    /\ Len(fragments) < MaxFragments
    /\ accumulated' = accumulate_tool_call_chunk(accumulated, chunk)
    /\ fragments' = Append(fragments, chunk)
    /\ UNCHANGED final_tool_calls
    /\ UNCHANGED notAcc

\* langchain_agent.py:479.  The stream is exhausted.
FinalizeToolCalls ==
    /\ final_tool_calls = NotFinalized
    /\ final_tool_calls' = finalize_tool_calls(accumulated)
    /\ UNCHANGED << accumulated, fragments >>
    /\ UNCHANGED notAcc

AccNext ==
    \/ \E chunk \in Chunks : AccumulateChunk(chunk)
    \/ FinalizeToolCalls

AccSpec == Init /\ [][AccNext]_vars

(***************************************************************************)
(* C14: for the chunks of one turn that share an index and carry at least  *)
(* one non-empty name fragment, finalization gives exactly one call, whose *)
(* name is the name fragments of that index concatenated in arrival order  *)
(* and whose arguments are the JSON parse of the argument fragments of     *)
(* that index concatenated in arrival order, or the empty mapping when     *)
(* that text is empty or is no JSON document; finalization raises nothing. *)
(***************************************************************************)
\* The index a chunk belongs to, and the chunks of index i in arrival order.
IndexOf(chunk) == IF chunk.index = NoIndex THEN 0 ELSE chunk.index

FragmentsOf(i) == SelectSeq(fragments, LAMBDA c : IndexOf(c) = i)

RECURSIVE ConcatNames(_)
ConcatNames(cs) ==
    IF cs = <<>> THEN EmptyText ELSE Head(cs).name \o ConcatNames(Tail(cs))

RECURSIVE ConcatArgs(_)
ConcatArgs(cs) ==
    IF cs = <<>> THEN EmptyText ELSE Head(cs).args \o ConcatArgs(Tail(cs))

NamedIndexes ==
    {i \in ChunkIndexes \ {NoIndex} : ConcatNames(FragmentsOf(i)) # EmptyText}

ParseOrEmpty(text) ==
    IF text # EmptyText /\ json_loads(text).ok
    THEN json_loads(text).value
    ELSE EmptyMapping

C14_OneCallPerIndexFromFragments ==
    final_tool_calls.finalized =>
        /\ ~final_tool_calls.raised
        /\ Len(final_tool_calls.calls) = Cardinality(NamedIndexes)
        /\ \A i \in NamedIndexes :
              LET k == Cardinality({j \in NamedIndexes : j <= i})
                  call == final_tool_calls.calls[k]
              IN  /\ call.name = ConcatNames(FragmentsOf(i))
                  /\ call.args = ParseOrEmpty(ConcatArgs(FragmentsOf(i)))

C14_Witness ==
    /\ final_tool_calls.finalized
    /\ Len(fragments) = 2
    /\ fragments[1].index = 1 /\ fragments[2].index = 1
    /\ Len(final_tool_calls.calls) = 1
    /\ final_tool_calls.calls[1].name = << "w", "s" >>
    /\ final_tool_calls.calls[1].args = {"k"}

(***************************************************************************)
(* The text of one turn, chunk by chunk: _extract_text and the chunk loop  *)
(* of DefaultAgent.run (backend/agent/default/agent.py:29-46, 235-253).    *)
(***************************************************************************)
\* Longest text of a turn, and most chunks it is streamed in.
MaxTextLen == 2
MaxChunks == 3

\* The text of length n: its k-th character is the k-th letter.
TextOfLen(n) == [k \in 1..n |-> Letters[k]]

\* The first n elements of s (all of s when it is shorter), and the rest.
Take(s, n) == [k \in 1..(IF n < Len(s) THEN n ELSE Len(s)) |-> s[k]]
Drop(s, n) == [k \in 1..(IF n < Len(s) THEN Len(s) - n ELSE 0) |-> s[k + n]]

\* The content field of a chunk: a str, a list of content blocks, or
\* something else (None).  A block is a dict (with or without "type" and
\* "text") or a str.
StrContent(text) == [kind |-> "str", text |-> text, blocks |-> <<>>]
ListContent(blocks) == [kind |-> "list", text |-> EmptyText, blocks |-> blocks]
NoneContent == [kind |-> "none", text |-> EmptyText, blocks |-> <<>>]

TextBlock(text) == [kind |-> "dict", type |-> "text", has_text |-> TRUE, text |-> text]
BareTextBlock == [kind |-> "dict", type |-> "text", has_text |-> FALSE, text |-> EmptyText]
ToolUseBlock == [kind |-> "dict", type |-> "tool_use", has_text |-> FALSE, text |-> EmptyText]
StrBlock(text) == [kind |-> "str", type |-> "", has_text |-> FALSE, text |-> text]

\* The contents a provider may send for the text fragment `piece`: the
\* fragment as a str, as one text block, as a str element after a block
\* that is no text, as two text blocks; an empty fragment also as None, as
\* the empty list, and as a text block without "text".
ContentsOf(piece) ==
    {StrContent(piece),
     ListContent(<< TextBlock(piece) >>),
     ListContent(<< ToolUseBlock, StrBlock(piece) >>),
     ListContent(<< TextBlock(Take(piece, 1)), TextBlock(Drop(piece, 1)) >>)}
    \cup (IF piece = EmptyText
          THEN {NoneContent, ListContent(<<>>), ListContent(<< BareTextBlock >>)}
          ELSE {})

\* `if chunk.content:` (default/agent.py:240).
Truthy(content) ==
    \/ content.kind = "str" /\ content.text # EmptyText
    \/ content.kind = "list" /\ content.blocks # <<>>

\* The text of one block as _extract_text_strElementsDropped takes it.
BlockText_strElementsDropped(block) ==
    IF block.kind = "dict" /\ block.type = "text"
    THEN (IF block.has_text THEN block.text ELSE EmptyText)
    ELSE EmptyText

\* default/agent.py:40-44: what a block adds to parts.
BlockText(block) ==
    IF block.kind = "dict" /\ block.type = "text"
    THEN (IF block.has_text THEN block.text ELSE EmptyText)
    ELSE IF block.kind = "str" THEN block.text
    ELSE EmptyText

RECURSIVE JoinBlocks(_)
JoinBlocks(blocks) ==
    IF blocks = <<>> THEN EmptyText
    ELSE BlockText(Head(blocks)) \o JoinBlocks(Tail(blocks))

\* default/agent.py:29-46.
extract_text(content) ==
    IF content.kind = "str" THEN content.text
    ELSE IF content.kind = "list" THEN JoinBlocks(content.blocks)
    ELSE EmptyText

\* The chunks delivered so far: the fragment each carries and its content.
Delivery(piece, content) == [piece |-> piece, content |-> content]

RECURSIVE ConcatPieces(_)
ConcatPieces(ds) ==
    IF ds = <<>> THEN EmptyText ELSE Head(ds).piece \o ConcatPieces(Tail(ds))

\* The part of the turn's text that is still to be streamed.
Undelivered == Drop(stream_text, Len(ConcatPieces(delivered)))

\* The first pass of run, in the chunk loop, with the text of the turn
\* chosen.
TextInit ==
    /\ \E n \in 0..MaxTextLen : stream_text = TextOfLen(n)
    /\ delivered = <<>>
    /\ pc = "stream"
    /\ iteration = 0
    /\ collected_content = EmptyText
    /\ full_text = EmptyText
    /\ lc_messages \in {BuildMessages(messages) : messages \in InputMessages}
    /\ tool_calls = <<>>
    /\ tc_index = 0
    /\ result = NoResult
    /\ pending_events = <<>>
    /\ log = << StreamCall >>
    /\ DispatchIdle /\ AccIdle /\ SubIdle /\ RecoveryIdle /\ RunIdle
    /\ PeersIdle /\ RefreshIdle /\ OnboardingIdle

\* default/agent.py:238-251.  The provider delivers the next n characters
\* of the turn's text in a chunk with the given content.
StreamContent(n, content) ==
    /\ pc = "stream"
    /\ Len(delivered) < MaxChunks
    /\ n <= Len(Undelivered)
    /\ LET piece == Take(Undelivered, n)
           text_piece == IF Truthy(content) THEN extract_text(content) ELSE EmptyText
       IN  /\ content \in ContentsOf(piece)
           /\ delivered' = Append(delivered, Delivery(piece, content))
           /\ IF text_piece # EmptyText
              THEN /\ collected_content' = collected_content \o text_piece
                   /\ log' = Append(log, Yield("text_delta", NoId, NoTool, text_piece))
              ELSE UNCHANGED << collected_content, log >>
    /\ UNCHANGED << pc, iteration, full_text, lc_messages, tool_calls,
                    tc_index, result, pending_events, stream_text >>
    /\ UNCHANGED notText

\* default/agent.py:253-282.  The stream is exhausted and the merged
\* response holds one call of a tool: the assistant turn is appended.
StreamContentEnd ==
    /\ pc = "stream"
    /\ Undelivered = EmptyText
    /\ LET calls == ValidToolCalls(ExtractToolCalls(<< "web_search" >>, iteration))
       IN  /\ full_text' = full_text \o collected_content
           /\ tool_calls' = calls
           /\ tc_index' = 1
           /\ lc_messages' = Append(lc_messages, AIMessage(collected_content, Ids(calls)))
           /\ pc' = "tools"
           /\ log' = Append(log, Entry("append", "ai", NoId, NoTool, collected_content))
    /\ UNCHANGED << iteration, collected_content, result, pending_events,
                    stream_text, delivered >>
    /\ UNCHANGED notText

TextNext ==
    \/ \E n \in 0..MaxTextLen :
          \E content \in ContentsOf(Take(Undelivered, n)) :
             StreamContent(n, content)
    \/ StreamContentEnd

TextSpec == TextInit /\ [][TextNext]_vars

(***************************************************************************)
(* C15: the text stored in the assistant turn of the history is the text   *)
(* fragments of the turn concatenated in arrival order; it is the text the *)
(* provider streamed, however that text was split into chunks (empty       *)
(* fragments included).                                                    *)
(***************************************************************************)
TurnStored == pc = "tools"

C15_TurnTextIsConcatenationOfFragments ==
    /\ pc = "stream" => collected_content = ConcatPieces(delivered)
    /\ TurnStored =>
          /\ lc_messages[Len(lc_messages)].role = "ai"
          /\ lc_messages[Len(lc_messages)].content = ConcatPieces(delivered)
          /\ lc_messages[Len(lc_messages)].content = stream_text

C15_Witness ==
    /\ TurnStored
    /\ Len(delivered) = 3
    /\ delivered[1].piece = << "a" >> /\ delivered[1].content.kind = "list"
    /\ delivered[2].piece = EmptyText
    /\ delivered[3].piece = << "b" >> /\ delivered[3].content.kind = "str"
    /\ lc_messages[Len(lc_messages)].content = << "a", "b" >>

(***************************************************************************)
(* C16: a tool call whose finalized name is empty is never used by the     *)
(* loop: it is not in the call list the loop works through, no tool_start  *)
(* is emitted for it, the dispatcher and the handlers are never entered    *)
(* for it, and no assistant turn of the history records it.                *)
(***************************************************************************)
\* The ids of the calls the provider returned with an empty name.
EmptyNamedIds ==
    {log[p].id : p \in {q \in 1..Len(log) :
        log[q].kind = "call" /\ log[q].tag = "returned" /\ log[q].name = ""}}

\* A log entry in which the loop uses a call: its tool_start, its dispatch,
\* its handler, its outcome event, its tool message.
UsesCall(e) ==
    \/ e.kind = "yield" /\ e.tag \in {"tool_start", "tool_result", "tool_error"}
    \/ e.kind \in {"execute", "handler", "queue"}
    \/ e.kind = "append" /\ e.tag = "tool"

C16_EmptyNamedCallsNeverUsed ==
    LET empty == EmptyNamedIds
    IN  /\ \A k \in 1..Len(tool_calls) :
              tool_calls[k].name # "" /\ tool_calls[k].id \notin empty
        /\ \A p \in 1..Len(log) :
              UsesCall(log[p]) => log[p].name # "" /\ log[p].id \notin empty
        /\ \A m \in 1..Len(lc_messages) :
              /\ \A k \in 1..Len(lc_messages[m].calls) :
                    lc_messages[m].calls[k] \notin empty
              /\ lc_messages[m].call_id \notin empty

\* A turn returned an empty-named call next to a named one, and the named
\* one was started, dispatched and recorded.
C16_Witness ==
    \E p, q, r \in 1..Len(log) :
       /\ log[p].kind = "call" /\ log[p].tag = "returned" /\ log[p].name = ""
       /\ log[q].kind = "call" /\ log[q].tag = "returned" /\ log[q].name # ""
       /\ q = p + 1
       /\ q < r
       /\ log[r].kind = "execute" /\ log[r].id = log[q].id
       /\ \E m \in 1..Len(lc_messages) :
             lc_messages[m].role = "ai" /\ lc_messages[m].calls = << log[q].id >>

(***************************************************************************)
(* The job search sub-agent's result sink: JobSearchSubAgentTools          *)
(* (backend/agent/job_search_agent.py:107-186) over the SearchResult       *)
(* table.  Controllers of a session are constructed one after the other    *)
(* (run_job_search builds one per call), all with the application's one    *)
(* max_results.                                                            *)
(***************************************************************************)
\* Largest max_results, and most constructions and commit attempts of one
\* behaviour.
MaxResults == 2
MaxAttempts == 4

ConversationIds == {1, 2}

\* A url that is falsy (None or the empty string), and the other urls.
NoUrl == ""
Urls == {NoUrl, "u1", "u2"}

\* A row of the SearchResult table (the columns the sink reads).
SearchResult(conversation_id, url) ==
    [conversation_id |-> conversation_id, url |-> url]

\* The table with every row, whatever its conversation.
filter_by_anyConversation(rows, conversation_id) == rows

\* SearchResult.query.filter_by(conversation_id=...).all()
filter_by(rows, conversation_id) ==
    SelectSeq(rows, LAMBDA r : r.conversation_id = conversation_id)

\* JobSearchSubAgentTools.__init__ (job_search_agent.py:115-129).
JobSearchSubAgentTools(conversation_id, max_results, rows) ==
    LET existing == filter_by(rows, conversation_id)
    IN  [conversation_id |-> conversation_id,
         max_results |-> max_results,
         results_added |-> Len(existing),
         urls_seen |-> {existing[k].url : k \in 1..Len(existing)} \ {NoUrl}]

\* What one call leaves behind: the returned mapping's status, the
\* controller, the table and the events handed to event_callback.
Outcome(status, c, rows, events) ==
    [status |-> status, controller |-> c, rows |-> rows, events |-> events]

\* The limit test that never fires.
LimitReached_never(c) == FALSE

\* job_search_agent.py:137.
LimitReached(c) == c.results_added >= c.max_results

\* The duplicate test that never fires.
IsDuplicate_never(c, url) == FALSE

\* job_search_agent.py:141.
IsDuplicate(c, url) == url # NoUrl /\ url \in c.urls_seen

\* The accepted commit that pushes no event.
Added_noEvent(c, rows, url) ==
    Outcome("added",
            [c EXCEPT !.urls_seen = IF url # NoUrl THEN @ \cup {url} ELSE @,
                      !.results_added = @ + 1],
            Append(rows, SearchResult(c.conversation_id, url)),
            <<>>)

\* The accepted commit that puts every url, the empty one too, in the seen set.
Added_seenAlways(c, rows, url) ==
    Outcome("added",
            [c EXCEPT !.urls_seen = @ \cup {url},
                      !.results_added = @ + 1],
            Append(rows, SearchResult(c.conversation_id, url)),
            << [event |-> "search_result_added", url |-> url] >>)

\* job_search_agent.py:145-176.
Added(c, rows, url) ==
    Outcome("added",
            [c EXCEPT !.urls_seen = IF url # NoUrl THEN @ \cup {url} ELSE @,
                      !.results_added = @ + 1],
            Append(rows, SearchResult(c.conversation_id, url)),
            << [event |-> "search_result_added", url |-> url] >>)

\* The commit tool that counts a duplicate it rejects.
add_search_result_countsRejected(c, rows, url) ==
    IF LimitReached(c) THEN Outcome("limit_reached", c, rows, <<>>)
    ELSE IF IsDuplicate(c, url)
    THEN Outcome("duplicate", [c EXCEPT !.results_added = @ + 1], rows, <<>>)
    ELSE Added(c, rows, url)

\* job_search_agent.py:131-176.
add_search_result(c, rows, url) ==
    IF LimitReached(c) THEN Outcome("limit_reached", c, rows, <<>>)
    ELSE IF IsDuplicate(c, url) THEN Outcome("duplicate", c, rows, <<>>)
    ELSE Added(c, rows, url)

\* job_search_agent.py:178-186, for tool_name = "add_search_result".  When
\* the arguments do not bind the signature the call raises TypeError before
\* the body runs and the error mapping is returned.
sub_execute(c, rows, url, binds) ==
    IF binds THEN add_search_result(c, rows, url)
    ELSE Outcome("error", c, rows, <<>>)

\* The rows stored for a conversation, and those of them with a url,
\* counted on the table itself.
StoredFor(rows, conversation_id) ==
    Cardinality({k \in 1..Len(rows) : rows[k].conversation_id = conversation_id})
StoredWithUrl(rows, conversation_id, url) ==
    Cardinality({k \in 1..Len(rows) :
        rows[k].conversation_id = conversation_id /\ rows[k].url = url})
StoredUrls(rows, conversation_id) ==
    {rows[k].url : k \in {j \in 1..Len(rows) :
        rows[j].conversation_id = conversation_id}} \ {NoUrl}

\* One line of the history of the sink: a construction or a commit attempt,
\* with the controller's count and seen urls and the table's row counts
\* before and after it.
Attempt(kind, conversation_id, url, binds, status, c_after, count_before, rows_before, rows_after, pushed_before, pushed_after) ==
    [kind |-> kind, conversation_id |-> conversation_id, url |-> url,
     binds |-> binds, status |-> status,
     max_results |-> c_after.max_results,
     count_before |-> count_before, count_after |-> c_after.results_added,
     seen_after |-> c_after.urls_seen,
     stored_before |-> StoredFor(rows_before, conversation_id),
     stored_after |-> StoredFor(rows_after, conversation_id),
     stored_urls_before |-> StoredUrls(rows_before, conversation_id),
     with_url_after |-> StoredWithUrl(rows_after, conversation_id, url),
     pushed_before |-> pushed_before, pushed_after |-> pushed_after]

\* run_job_search (tools.py:680-689) constructs the controller of a
\* conversation; the application passes every controller the same
\* max_results.
Construct(conversation_id, max_results) ==
    /\ Len(attempts) < MaxAttempts
    /\ controller # NoController => max_results = controller.max_results
    /\ LET c == JobSearchSubAgentTools(conversation_id, max_results, search_results)
       IN  /\ controller' = c
           /\ pushed' = <<>>
           /\ attempts' = Append(attempts,
                 Attempt("construct", conversation_id, NoUrl, TRUE, "constructed",
                         c, 0, search_results, search_results, 0, 0))
    /\ UNCHANGED search_results
    /\ UNCHANGED notSub

\* The sub-agent's loop dispatches one add_search_result call
\* (job_search_agent.py:368-371).
AddSearchResult(url, binds) ==
    /\ controller # NoController
    /\ Len(attempts) < MaxAttempts
    /\ LET out == sub_execute(controller, search_results, url, binds)
       IN  /\ controller' = out.controller
           /\ search_results' = out.rows
           /\ pushed' = pushed \o out.events
           /\ attempts' = Append(attempts,
                 Attempt("attempt", controller.conversation_id, url, binds,
                         out.status, out.controller, controller.results_added,
                         search_results, out.rows,
                         Len(pushed), Len(pushed \o out.events)))
    /\ UNCHANGED notSub

SubNext ==
    \/ \E conversation_id \in ConversationIds, max_results \in 1..MaxResults :
          Construct(conversation_id, max_results)
    \/ \E url \in Urls, binds \in BOOLEAN : AddSearchResult(url, binds)

SubSpec == Init /\ [][SubNext]_vars

\* The positions of the commit attempts that entered add_search_result.
Commits == {p \in 1..Len(attempts) :
              attempts[p].kind = "attempt" /\ attempts[p].binds}

\* Two commits of one session with the same non-empty url.
SameUrlPairs ==
    {pq \in Commits \X Commits :
        /\ pq[1] < pq[2]
        /\ attempts[pq[1]].conversation_id = attempts[pq[2]].conversation_id
        /\ attempts[pq[1]].url = attempts[pq[2]].url
        /\ attempts[pq[1]].url # NoUrl}

(***************************************************************************)
(* C17, as stated: of two commits of one session with the same non-empty   *)
(* url exactly one record is stored, and the second returns `duplicate`.   *)
(* It fails when the count has reached max_results: the limit is tested    *)
(* before the url.                                                         *)
(***************************************************************************)
C17_SecondCommitIsDuplicate ==
    \A pq \in SameUrlPairs :
       /\ attempts[pq[2]].status = "duplicate"
       /\ attempts[pq[2]].with_url_after = 1

(***************************************************************************)
(* C17, amended: of two commits of one session with the same non-empty url *)
(* at most one record is stored, exactly one when the first found the      *)
(* count below max_results; the second stores nothing and returns          *)
(* `duplicate` when it finds the count below max_results and               *)
(* `limit_reached` otherwise.                                              *)
(***************************************************************************)
C17_SecondCommitStoresNothing ==
    \A pq \in SameUrlPairs :
       LET first == attempts[pq[1]]
           second == attempts[pq[2]]
       IN  /\ second.stored_after = second.stored_before
           /\ second.with_url_after <= 1
           /\ first.count_before < first.max_results => second.with_url_after = 1
           /\ second.status = IF second.count_before < second.max_results
                              THEN "duplicate" ELSE "limit_reached"

\* A second commit below the limit, after the first was accepted.
C17_Witness ==
    \E pq \in SameUrlPairs :
       /\ attempts[pq[1]].status = "added"
       /\ attempts[pq[2]].status = "duplicate"
       /\ attempts[pq[2]].with_url_after = 1

(***************************************************************************)
(* C18: the records stored for a controller's session never exceed its     *)
(* max_results; a commit made once the count has reached max_results       *)
(* returns `limit_reached` and leaves the stored count unchanged.          *)
(***************************************************************************)
C18_NeverMoreThanMaxResults ==
    /\ controller # NoController =>
          StoredFor(search_results, controller.conversation_id)
             <= controller.max_results
    /\ \A p \in 1..Len(attempts) :
          attempts[p].stored_after <= attempts[p].max_results
    /\ \A p \in Commits :
          (\/ attempts[p].count_before >= attempts[p].max_results
           \/ attempts[p].stored_before >= attempts[p].max_results)
          => /\ attempts[p].status = "limit_reached"
             /\ attempts[p].stored_after = attempts[p].stored_before
             /\ attempts[p].count_after = attempts[p].count_before

\* Two records were accepted under max_results = 2 and the next commit, of a
\* url not seen before, was turned away.
C18_Witness ==
    \E p \in Commits :
       /\ attempts[p].max_results = 2
       /\ attempts[p].stored_before = 2
       /\ attempts[p].url \notin attempts[p].stored_urls_before
       /\ attempts[p].status = "limit_reached"
       /\ StoredFor(search_results, attempts[p].conversation_id) = 2

(***************************************************************************)
(* C19: a controller constructed for a session with committed results is   *)
(* primed: its count is the number of records stored for that session and  *)
(* its seen set holds every non-empty url among them, so a commit of a url *)
(* already stored for the session stores nothing, and no session ever      *)
(* holds two records with one non-empty url.                               *)
(***************************************************************************)
C19_ControllerPrimedFromSession ==
    /\ \A p \in 1..Len(attempts) :
          attempts[p].kind = "construct" =>
             /\ attempts[p].count_after = attempts[p].stored_before
             /\ attempts[p].seen_after = attempts[p].stored_urls_before
    /\ \A p \in Commits :
          attempts[p].url \in attempts[p].stored_urls_before =>
             /\ attempts[p].stored_after = attempts[p].stored_before
             /\ attempts[p].status \in {"duplicate", "limit_reached"}
    /\ \A conversation_id \in ConversationIds, url \in Urls \ {NoUrl} :
          StoredWithUrl(search_results, conversation_id, url) <= 1

\* The session held one record, with url u1; the controller constructed
\* next was primed with it and turned the commit of u1 away as a duplicate.
C19_Witness ==
    \E p \in 1..Len(attempts) :
       /\ p + 1 \in Commits
       /\ attempts[p].kind = "construct"
       /\ attempts[p].count_after = 1
       /\ attempts[p].seen_after = {"u1"}
       /\ attempts[p + 1].url = "u1"
       /\ attempts[p + 1].status = "duplicate"
       /\ attempts[p + 1].max_results = 2

(***************************************************************************)
(* C20: an accepted commit (status `added`) persists one record, adds its  *)
(* non-empty url to the seen set, increments the count by one and pushes   *)
(* one `search_result_added` event; no other call stores or pushes.  So    *)
(* the events a controller has pushed are as many as the records it has    *)
(* stored, and its count is the primed count plus that number.             *)
(***************************************************************************)
\* The construction of the current controller.
LastConstruct ==
    attempts[CHOOSE p \in 1..Len(attempts) :
                /\ attempts[p].kind = "construct"
                /\ \A q \in (p + 1)..Len(attempts) : attempts[q].kind # "construct"]

C20_AddedPersistsCountsAndPushes ==
    /\ \A p \in 1..Len(attempts) :
          attempts[p].kind = "attempt" =>
             IF attempts[p].status = "added"
             THEN /\ attempts[p].stored_after = attempts[p].stored_before + 1
                  /\ attempts[p].with_url_after >= 1
                  /\ attempts[p].count_after = attempts[p].count_before + 1
                  /\ attempts[p].url # NoUrl => attempts[p].url \in attempts[p].seen_after
                  /\ attempts[p].pushed_after = attempts[p].pushed_before + 1
             ELSE /\ attempts[p].stored_after = attempts[p].stored_before
                  /\ attempts[p].count_after = attempts[p].count_before
                  /\ attempts[p].pushed_after = attempts[p].pushed_before
    /\ \A k \in 1..Len(pushed) : pushed[k].event = "search_result_added"
    /\ controller # NoController =>
          /\ Len(pushed) = StoredFor(search_results, controller.conversation_id)
                              - LastConstruct.stored_before
          /\ controller.results_added = LastConstruct.count_after + Len(pushed)

\* A controller primed with one record accepted a commit with a url.
C20_Witness ==
    /\ controller # NoController
    /\ LastConstruct.count_after = 1
    /\ Len(pushed) = 1
    /\ pushed[1].url # NoUrl
    /\ controller.results_added = 2
    /\ attempts[Len(attempts)].status = "added"

(***************************************************************************)
(* C28: when several fragments of one index carry a non-null id, the       *)
(* finalized call's id is the first of them in arrival order.              *)
(***************************************************************************)
\* The non-null ids of the fragments of index i, in arrival order.
IdsOf(i) ==
    LET with_id == SelectSeq(FragmentsOf(i), LAMBDA c : c.id # Null)
    IN  [k \in 1..Len(with_id) |-> with_id[k].id]

C28_FirstIdWins ==
    final_tool_calls.finalized =>
        \A i \in NamedIndexes :
           LET k == Cardinality({j \in NamedIndexes : j <= i})
           IN  IdsOf(i) # <<>> => final_tool_calls.calls[k].id = IdsOf(i)[1]

(***************************************************************************)
(* Reading the turns of a run off the log.                                 *)
(***************************************************************************)
IsTextDelta(e) == e.kind = "yield" /\ e.tag = "text_delta"

\* The position of the provider call that opened the turn position p is in.
TurnStart(p) ==
    CHOOSE q \in 1..p : log[q] = StreamCall /\ \A r \in (q + 1)..p : log[r] # StreamCall

\* The text the turn produced before position p.
RECURSIVE TextBetween(_, _)
TextBetween(q, p) ==
    IF q >= p THEN EmptyText
    ELSE (IF IsTextDelta(log[q]) THEN log[q].text ELSE EmptyText) \o TextBetween(q + 1, p)

\* The blank line between the texts of two turns.
Separator == << "\n\n" >>

\* The accumulated text of the run as a reader of the events expects it:
\* the text of each text-producing turn, a separator before every one but
\* the first.
RECURSIVE SeparatedText(_, _, _)
SeparatedText(lg, acc, started) ==
    IF lg = <<>> THEN acc
    ELSE IF Head(lg) = StreamCall THEN SeparatedText(Tail(lg), acc, FALSE)
    ELSE IF IsTextDelta(Head(lg))
    THEN SeparatedText(Tail(lg),
                       (IF ~started /\ acc # EmptyText THEN acc \o Separator ELSE acc)
                          \o Head(lg).text,
                       TRUE)
    ELSE SeparatedText(Tail(lg), acc, started)

(***************************************************************************)
(* C29: when a turn begins producing text while the text accumulated from  *)
(* earlier turns is non-empty, a blank line is inserted once before the    *)
(* turn's text: the content of `done` is the texts of the text-producing   *)
(* turns with a separator between consecutive ones.                        *)
(***************************************************************************)
C29_SeparatorBetweenTurns ==
    \A p \in 1..Len(log) :
       log[p].kind = "yield" /\ log[p].tag = "done" =>
          log[p].text = SeparatedText(SubSeq(log, 1, p), EmptyText, FALSE)

(***************************************************************************)
(* C30: a turn whose call list is non-empty but holds only empty names is  *)
(* a tool-call-free turn: nothing of it is dispatched, no assistant turn   *)
(* is appended, no `error` is emitted, and the run ends with `done`.       *)
(***************************************************************************)
\* The positions of the calls the turn that ends at position p returned.
ReturnedIn(p) ==
    {r \in TurnStart(p)..p : log[r].kind = "call" /\ log[r].tag = "returned"}

\* Position p closes a turn that returned calls, none of them with a name.
IsAllMalformed(p) ==
    /\ log[p].kind = "turn"
    /\ ReturnedIn(p) # {}
    /\ \A r \in ReturnedIn(p) : log[r].name = ""

C30_AllMalformedTurnEndsRun ==
    \A p \in 1..Len(log) :
       IsAllMalformed(p) =>
          /\ pc = "finished"
          /\ Len(log) = p + 1
          /\ log[p + 1] = Yield("done", NoId, NoTool, full_text)
          /\ \A r \in TurnStart(p)..Len(log) :
                /\ ~UsesCall(log[r])
                /\ ~(log[r].kind = "append")
                /\ ~(log[r].kind = "yield" /\ log[r].tag = "error")
          /\ \A m \in 1..Len(lc_messages), r \in ReturnedIn(p) :
                \A k \in 1..Len(lc_messages[m].calls) :
                   lc_messages[m].calls[k] # log[r].id

\* The second turn of a run returned two calls without a name, after a first
\* turn whose call was dispatched.
C30_Witness ==
    \E p \in 1..Len(log) :
       /\ IsAllMalformed(p)
       /\ Cardinality(ReturnedIn(p)) = 2
       /\ \E r \in 1..TurnStart(p) : log[r].kind = "execute"
       /\ pc = "finished"

(***************************************************************************)
(* C24: when recovery yields a call from a provider fault, no `error` is   *)
(* emitted; the assistant turn with the partial text and the recovered     *)
(* call is appended, tool_start is emitted, the call is dispatched, the    *)
(* queue is flushed, tool_result or tool_error is emitted, the tool turn   *)
(* is appended, and the loop goes on to its next pass (the next provider   *)
(* call, or `done` when the recovered turn was the last pass).             *)
(***************************************************************************)
IsRecoveredFault(e) == e.kind = "turn" /\ e.tag = "fault" /\ e.name # NoTool

C24_RecoveredCallRunsLikeATurn ==
    Ended =>
       \A p \in 1..Len(log) :
          IsRecoveredFault(log[p]) =>
             /\ p + 2 <= Len(log)
             /\ log[p + 1] = Entry("append", "ai", NoId, NoTool,
                                   TextBetween(TurnStart(p), p))
             /\ IsToolStart(log[p + 2]) /\ log[p + 2].name = log[p].name
             /\ \E q \in (p + 3)..Len(log) :
                   /\ log[p + 3].kind = "execute" /\ log[p + 3].id = log[p + 2].id
                   /\ IsToolOutcome(log[q]) /\ log[q].id = log[p + 2].id
                   /\ \A r \in (p + 4)..(q - 1) :
                         \/ log[r].kind \in {"handler", "queue"}
                         \/ IsSideEvent(log[r])
                   /\ Count(SubSeq(log, p + 3, q), LAMBDA e : e.kind = "queue")
                        = Count(SubSeq(log, p + 3, q), IsSideEvent)
                   /\ q + 2 <= Len(log)
                   /\ log[q + 1].kind = "append" /\ log[q + 1].tag = "tool"
                   /\ log[q + 1].id = log[p + 2].id
                   /\ \/ log[q + 2] = StreamCall
                      \/ log[q + 2].kind = "yield" /\ log[q + 2].tag = "done"

(***************************************************************************)
(* Recovery: matching a recovered JSON object to a tool,                   *)
(* _match_json_to_tool (backend/agent/default/agent.py:119-154).           *)
(***************************************************************************)
\* Most keys of a recovered object.
MaxObjKeys == 3

\* Keys a recovered object may have: fields of the schemas, and one that is
\* a field of none.  An object is given by its keys.
ObjKeys == {"query", "num_results", "url", "company", "title", "junk"}
JsonObjects == {K \in SUBSET ObjKeys : Cardinality(K) <= MaxObjKeys}

\* The args_schema of a tool's definition: None for the tools declared
\* without one; its fields; its required fields (CreateJobInput requires
\* company and title while create_job itself takes **kwargs).
HasSchema(tool) == tool \notin {"read_user_profile", "read_resume"}
SchemaFields(tool) == Signatures(tool).schema
SchemaRequired(tool) ==
    IF tool = "create_job" THEN {"company", "title"} ELSE Signatures(tool).required

\* The tools objects handed to the matcher: AgentTools with the whole
\* registry, and one that offers only the tools with a required field.
Registries ==
    {TOOL_REGISTRY, SelectSeq(TOOL_REGISTRY, LAMBDA t : SchemaRequired(t) # {})}

\* The required-fields test, always true.
Eligible_always(tool, obj_keys) == TRUE

\* default/agent.py:137-141: all required fields are present.
Eligible(tool, obj_keys) == SchemaRequired(tool) \subseteq obj_keys

\* default/agent.py:144-148, twice the score (overlap - extra * 0.5), so
\* that it is an integer.
Score2(tool, obj_keys) ==
    2 * Cardinality(obj_keys \cap SchemaFields(tool))
      - Cardinality(obj_keys \ SchemaFields(tool))

\* The comparison with >= for >.
Better_orEqual(score, best_score) == score >= best_score

\* The comparison under which a later tool with the same positive score
\* replaces the current best.
Better_tieReplaces(score, best_score) == score >= best_score /\ score > 0

\* default/agent.py:150.
Better(score, best_score) == score > best_score

Matcher(obj_keys, definitions, position, best_name, best_score, returned, value) ==
    [called |-> TRUE, obj_keys |-> obj_keys, definitions |-> definitions,
     position |-> position, best_name |-> best_name, best_score |-> best_score,
     returned |-> returned, value |-> value]

\* default/agent.py:124-129.  The call, up to the head of the loop.
MatchCall(obj_keys, definitions) ==
    /\ matcher = NoMatcher
    /\ matcher' = IF obj_keys = {}
                  THEN Matcher(obj_keys, definitions, 0, NoTool, 0, TRUE, NoTool)
                  ELSE Matcher(obj_keys, definitions, 1, NoTool, 0, FALSE, NoTool)
    /\ UNCHANGED notMatcher

\* default/agent.py:131-152.  One pass of `for defn in ...`.
MatchStep ==
    /\ matcher # NoMatcher
    /\ ~matcher.returned
    /\ matcher.position <= Len(matcher.definitions)
    /\ LET tool == matcher.definitions[matcher.position]
           score == Score2(tool, matcher.obj_keys)
           taken == /\ HasSchema(tool)
                    /\ Eligible(tool, matcher.obj_keys)
                    /\ Better(score, matcher.best_score)
       IN  matcher' = [matcher EXCEPT
                          !.position = @ + 1,
                          !.best_name = IF taken THEN tool ELSE @,
                          !.best_score = IF taken THEN score ELSE @]
    /\ UNCHANGED notMatcher

\* default/agent.py:154.
MatchReturn ==
    /\ matcher # NoMatcher
    /\ ~matcher.returned
    /\ matcher.position > Len(matcher.definitions)
    /\ matcher' = [matcher EXCEPT !.returned = TRUE, !.value = matcher.best_name]
    /\ UNCHANGED notMatcher

MatchNext ==
    \/ \E obj_keys \in JsonObjects, definitions \in Registries :
          MatchCall(obj_keys, definitions)
    \/ MatchStep
    \/ MatchReturn

MatchSpec == Init /\ [][MatchNext]_vars

MatchReturned == matcher # NoMatcher /\ matcher.returned

\* The tools of the matcher's registry that have a schema whose required
\* fields are all keys of the object.
EligibleTools ==
    {matcher.definitions[k] : k \in {j \in 1..Len(matcher.definitions) :
        /\ HasSchema(matcher.definitions[j])
        /\ SchemaRequired(matcher.definitions[j]) \subseteq matcher.obj_keys}}

(***************************************************************************)
(* C23: the matcher returns only a tool all of whose required schema       *)
(* fields are keys of the object, and None when no tool of the registry    *)
(* has all its required fields among the keys.                             *)
(***************************************************************************)
C23_MatchHasRequiredFields ==
    MatchReturned =>
       /\ matcher.value # NoTool => matcher.value \in EligibleTools
       /\ EligibleTools = {} => matcher.value = NoTool

\* create_job shares a key with the object but lacks its required title;
\* list_jobs was returned.
C23_Witness ==
    /\ MatchReturned
    /\ matcher.definitions = TOOL_REGISTRY
    /\ matcher.obj_keys = {"company", "url"}
    /\ matcher.value = "list_jobs"

(***************************************************************************)
(* C25: among the eligible tools the matcher returns one whose score,      *)
(* (keys that are schema fields) - 0.5 x (keys that are not), is the       *)
(* greatest; when the object has no keys or no eligible tool scores above  *)
(* 0 it returns None, and recovery yields no call.                         *)
(***************************************************************************)
\* Twice the score of the claim.
ClaimScore2(tool) ==
    2 * Cardinality({k \in matcher.obj_keys : k \in Signatures(tool).schema})
      - Cardinality({k \in matcher.obj_keys : k \notin Signatures(tool).schema})

C25_MatchHasGreatestScore ==
    MatchReturned =>
       IF matcher.obj_keys = {} \/ \A t \in EligibleTools : ClaimScore2(t) <= 0
       THEN /\ matcher.value = NoTool
            /\ recover_ollama_tool_calls(Exc(EmptyText, matcher.value), 0) = <<>>
       ELSE /\ matcher.value \in EligibleTools
            /\ \A t \in EligibleTools : ClaimScore2(matcher.value) >= ClaimScore2(t)

\* job_search comes first and is eligible with score 0; create_job, later
\* in the registry, scores 1.5 and is returned.
C25_Witness ==
    /\ MatchReturned
    /\ matcher.definitions = TOOL_REGISTRY
    /\ matcher.obj_keys = {"query", "company", "title"}
    /\ "job_search" \in EligibleTools /\ ClaimScore2("job_search") = 0
    /\ matcher.value = "create_job" /\ ClaimScore2("create_job") = 3

(***************************************************************************)
(* Recovery: the last JSON object of a text, _extract_last_json_object     *)
(* (backend/agent/default/agent.py:94-116).  Positions are counted from 0  *)
(* as in the source; NoIndex is the -1 of str.rfind.                       *)
(***************************************************************************)
\* Longest text handed to the scan.
MaxScanLen == 5

\* Its characters: the braces, a key, and one that belongs to no JSON text.
ScanChars == {"{", "}", "k", "x"}
ScanTexts == UNION {[1..n -> ScanChars] : n \in 0..MaxScanLen}

\* text.rfind(ch, lo, hi): the greatest position in lo..hi-1 that holds ch.
rfind(t, ch, lo, hi) ==
    LET found == {i \in lo..(hi - 1) : i < Len(t) /\ t[i + 1] = ch}
    IN  IF found = {} THEN NoIndex
        ELSE CHOOSE i \in found : \A j \in found : j <= i

\* text[start:], the candidate running to the end of the text.
Slice_toEndOfText(t, start, end) == [i \in 1..(Len(t) - start) |-> t[start + i]]

\* text[start:end + 1]
Slice(t, start, end) == [i \in 1..(end - start + 1) |-> t[start + i]]

\* The search for the next candidate that looks at position start again.
EarlierBrace_inclusive(t, start) == rfind(t, "{", 0, start + 1)

\* default/agent.py:104.
EarlierBrace(t, start) == rfind(t, "{", 0, start)

Scan(end, start, passes, tried, returned, found, obj) ==
    [called |-> TRUE, end |-> end, start |-> start, passes |-> passes,
     tried |-> tried, returned |-> returned, found |-> found, obj |-> obj]

\* default/agent.py:97-102.  The call, up to the head of the loop.
ScanCall(t) ==
    /\ scan = NoScan
    /\ raw_text = EmptyText
    /\ raw_text' = t
    /\ LET end == rfind(t, "}", 0, Len(t))
       IN  scan' = IF end = NoIndex
                   THEN Scan(end, NoIndex, 0, <<>>, TRUE, FALSE, EmptyMapping)
                   ELSE Scan(end, end, 0, <<>>, FALSE, FALSE, EmptyMapping)
    /\ UNCHANGED notScan

\* default/agent.py:103-116.  One pass of `while True`.
ScanPass ==
    /\ scan # NoScan
    /\ ~scan.returned
    /\ scan.passes <= Len(raw_text)
    /\ LET start == EarlierBrace(raw_text, scan.start)
           parsed == json_loads(Slice(raw_text, start, scan.end))
       IN  scan' =
              IF start = NoIndex
              THEN Scan(scan.end, start, scan.passes + 1, scan.tried,
                        TRUE, FALSE, EmptyMapping)
              ELSE IF parsed.ok
              THEN Scan(scan.end, start, scan.passes + 1, Append(scan.tried, start),
                        TRUE, TRUE, parsed.value)
              ELSE Scan(scan.end, start, scan.passes + 1, Append(scan.tried, start),
                        start = 0, FALSE, EmptyMapping)
    /\ UNCHANGED << raw_text, notScan >>

ScanNext ==
    \/ \E t \in ScanTexts : ScanCall(t)
    \/ ScanPass

ScanSpec == Init /\ [][ScanNext]_vars

\* The loop is a sequential program: a pass that can be made is made.
ScanLiveSpec == ScanSpec /\ WF_vars(ScanPass)

ScanCalled == scan # NoScan
ScanReturned == scan # NoScan /\ scan.returned

\* The position of the last '}' of the text (NoIndex without one), and the
\* positions before it where a '{' opens a text that parses as an object up
\* to it.
LastClose ==
    IF \E i \in 1..Len(raw_text) : raw_text[i] = "}"
    THEN (CHOOSE i \in 1..Len(raw_text) :
             /\ raw_text[i] = "}"
             /\ \A j \in (i + 1)..Len(raw_text) : raw_text[j] # "}") - 1
    ELSE NoIndex

UpToLastClose(s) == [i \in 1..(LastClose - s + 1) |-> raw_text[s + i]]

ObjectStarts ==
    {s \in 0..(LastClose - 1) :
        /\ raw_text[s + 1] = "{"
        /\ json_loads(UpToLastClose(s)).ok}

(***************************************************************************)
(* C26: the scan returns the object parsed from text[s..e], e the position *)
(* of the last '}' and s the greatest position of a '{' before e from      *)
(* which the text up to e parses as an object; None when the text has no   *)
(* '}' or no such s.  What precedes s and what follows e plays no part.    *)
(***************************************************************************)
C26_LastObjectReturned ==
    ScanReturned =>
       IF LastClose = NoIndex \/ ObjectStarts = {}
       THEN ~scan.found
       ELSE LET s == CHOOSE i \in ObjectStarts : \A j \in ObjectStarts : j <= i
            IN  /\ scan.found
                /\ scan.start = s
                /\ scan.end = LastClose
                /\ scan.obj = json_loads(UpToLastClose(s)).value

\* The candidate from the inner '{' is no JSON text; the one from the outer
\* '{' is returned.
C26_Witness ==
    /\ ScanReturned
    /\ raw_text = << "{", "k", "{", "}", "}" >>
    /\ scan.found
    /\ scan.tried = << 2, 0 >>
    /\ scan.obj = {"k"}

(***************************************************************************)
(* C27: the scan terminates on every text: the candidate start decreases   *)
(* strictly from pass to pass, so there is at most one parse attempt per   *)
(* '{' before the last '}' and never more passes than the text is long.    *)
(***************************************************************************)
BracesBeforeLastClose ==
    Cardinality({i \in 0..(LastClose - 1) : raw_text[i + 1] = "{"})

ScanBounded ==
    ScanCalled =>
       /\ \A i, j \in 1..Len(scan.tried) : i < j => scan.tried[j] < scan.tried[i]
       /\ Len(scan.tried) <= BracesBeforeLastClose
       /\ scan.passes <= Len(raw_text)

C27_ScanTerminates == []ScanBounded /\ (ScanCalled ~> ScanReturned)

\* Every '{' of the text was tried, none parsed, and the scan returned None.
C27_Witness ==
    /\ ScanReturned
    /\ raw_text = << "{", "{", "{", "x", "}" >>
    /\ scan.tried = << 2, 1, 0 >>
    /\ scan.passes = 3
    /\ ~scan.found

(***************************************************************************)
(* The job search sub-agent's loop: LangChainJobSearchAgent.run            *)
(* (backend/agent/job_search_agent.py:272-398) over the controller and the *)
(* table of the result sink.                                               *)
(***************************************************************************)
\* JOB_SEARCH_MAX_ITERATIONS (job_search_agent.py:41) is 40 in the source.
JOB_SEARCH_MAX_ITERATIONS == 2

\* job_search_agent.py:36-39.
SUB_AGENT_TOOL_NAMES ==
    {"job_search", "web_search", "scrape_url", "read_user_profile", "read_resume"}

\* A finalized tool call of the sub-agent's model: its name and, for
\* add_search_result, the url it carries and whether its arguments bind.
SubCall(name, url, binds) == [name |-> name, url |-> url, binds |-> binds]

SubCalls ==
    {SubCall(n, NoUrl, TRUE) : n \in {"web_search", "create_job"}}
    \cup {SubCall("add_search_result", "u1", b) : b \in BOOLEAN}
    \cup {SubCall("add_search_result", NoUrl, TRUE)}

\* What the run has done, in order: events pushed, provider calls, calls of
\* execute, handlers invoked.
RunEntry(kind, name) == [kind |-> kind, name |-> name]

JobRun(at, it, full, accum, calls, index, messages, trace, inputs, exit) ==
    [pc |-> at, iteration |-> it, full_text |-> full, text_accum |-> accum,
     calls |-> calls, tc_index |-> index, lc_messages |-> messages,
     trace |-> trace, inputs |-> inputs, exit |-> exit,
     returned |-> [called |-> FALSE]]

\* job_search_agent.py:387-390.  The mapping run returns.
Summary(c, full) ==
    [results_added |-> c.results_added,
     summary |-> IF full # EmptyText THEN full ELSE << "Search completed." >>]

\* The exit that pushes no search_completed after a stream fault.
JobFinish_silentOnFault(run, c, events, exit) ==
    /\ pushed' = IF exit = "fault" THEN events
                 ELSE Append(events, [event |-> "search_completed",
                                      results_added |-> c.results_added])
    /\ job_run' = [run EXCEPT
                      !.pc = "finished",
                      !.exit = exit,
                      !.returned = Summary(c, run.full_text),
                      !.trace = IF exit = "fault" THEN @
                                ELSE Append(@, RunEntry("event", "search_completed"))]

\* job_search_agent.py:387-398.  The statements after the loop.
JobFinish(run, c, events, exit) ==
    /\ pushed' = Append(events, [event |-> "search_completed",
                                 results_added |-> c.results_added])
    /\ job_run' = [run EXCEPT
                      !.pc = "finished",
                      !.exit = exit,
                      !.returned = Summary(c, run.full_text),
                      !.trace = Append(@, RunEntry("event", "search_completed"))]

\* job_search_agent.py:259-268 and 272-326.  The controller is constructed
\* and run is called: search_started is pushed and the first pass calls the
\* provider.  The binding of the tools to the model (269-270) and the
\* reading of the profile and resume (286-287) are not part of the loop.
JobSearchRun(conversation_id, max_results) ==
    /\ job_run = NoJobRun
    /\ LET c == JobSearchSubAgentTools(conversation_id, max_results, search_results)
       IN  /\ controller' = c
           /\ attempts' = Append(attempts,
                 Attempt("construct", conversation_id, NoUrl, TRUE, "constructed",
                         c, 0, search_results, search_results, 0, 0))
    /\ pushed' = << [event |-> "search_started"] >>
    /\ job_run' = JobRun("stream", 0, EmptyText, EmptyText, <<>>, 0,
                         << "system", "human" >>,
                         << RunEntry("event", "search_started"),
                            RunEntry("stream", NoTool) >>,
                         0, "none")
    /\ UNCHANGED search_results
    /\ UNCHANGED notRun

\* job_search_agent.py:331-340.  A chunk with text.
SubStreamChunk(text_piece) ==
    /\ job_run.pc = "stream"
    /\ job_run.inputs < MaxInputs
    /\ pushed' = Append(pushed, [event |-> "search_progress", content |-> text_piece])
    /\ job_run' = [job_run EXCEPT
                      !.text_accum = @ \o text_piece,
                      !.full_text = @ \o text_piece,
                      !.inputs = @ + 1,
                      !.trace = Append(@, RunEntry("event", "search_progress"))]
    /\ UNCHANGED << search_results, controller, attempts >>
    /\ UNCHANGED notRun

\* job_search_agent.py:346-348.  The provider stream raises.
SubStreamFault ==
    /\ job_run.pc = "stream"
    /\ job_run.inputs < MaxInputs
    /\ JobFinish([job_run EXCEPT !.inputs = @ + 1], controller, pushed, "fault")
    /\ UNCHANGED << search_results, controller, attempts >>
    /\ UNCHANGED notRun

\* job_search_agent.py:350-364.  The stream is exhausted; calls are the
\* finalized tool calls of the turn.
SubStreamEnd(calls) ==
    /\ job_run.pc = "stream"
    /\ job_run.inputs + Len(calls) <= MaxInputs
    /\ IF calls = <<>>
       THEN JobFinish(job_run, controller, pushed, "no_calls")
       ELSE /\ job_run' = [job_run EXCEPT
                              !.pc = "tools",
                              !.calls = calls,
                              !.tc_index = 1,
                              !.inputs = @ + Len(calls),
                              !.lc_messages = Append(@, "ai")]
            /\ UNCHANGED pushed
    /\ UNCHANGED << search_results, controller, attempts >>
    /\ UNCHANGED notRun

\* job_search_agent.py:366-385.  One pass of `for tc in final_tool_calls`:
\* the call is executed and its tool message appended; after the last call
\* the limit is tested and the loop goes to its next pass or is left.
SubToolExecute ==
    /\ job_run.pc = "tools"
    /\ LET tc == job_run.calls[job_run.tc_index]
           sink == tc.name = "add_search_result"
           out == IF sink
                  THEN sub_execute(controller, search_results, tc.url, tc.binds)
                  ELSE Outcome("base", controller, search_results, <<>>)
           invoked == IF sink THEN tc.binds ELSE InvokesHandler(tc.name)
           events == pushed \o out.events
           run == [job_run EXCEPT
                      !.lc_messages = Append(@, "tool"),
                      !.trace = @ \o << RunEntry("execute", tc.name) >>
                                  \o (IF invoked
                                      THEN << RunEntry("handler", tc.name) >>
                                      ELSE <<>>)
                                  \o [k \in 1..Len(out.events) |->
                                         RunEntry("event", out.events[k].event)]]
       IN  /\ controller' = out.controller
           /\ search_results' = out.rows
           /\ attempts' = IF sink
                          THEN Append(attempts,
                                 Attempt("attempt", controller.conversation_id,
                                         tc.url, tc.binds, out.status, out.controller,
                                         controller.results_added, search_results,
                                         out.rows, Len(pushed), Len(events)))
                          ELSE attempts
           /\ IF job_run.tc_index < Len(job_run.calls)
              THEN /\ job_run' = [run EXCEPT !.tc_index = @ + 1]
                   /\ pushed' = events
              ELSE IF LimitReached(out.controller)
              THEN JobFinish(run, out.controller, events, "limit")
              ELSE IF job_run.iteration + 1 < JOB_SEARCH_MAX_ITERATIONS
              THEN /\ job_run' = [run EXCEPT
                                     !.pc = "stream",
                                     !.iteration = @ + 1,
                                     !.text_accum = EmptyText,
                                     !.trace = Append(@, RunEntry("stream", NoTool))]
                   /\ pushed' = events
              ELSE JobFinish(run, out.controller, events, "cap")
    /\ UNCHANGED notRun

JobSearchNext ==
    \/ \E conversation_id \in ConversationIds, max_results \in 1..MaxResults :
          JobSearchRun(conversation_id, max_results)
    \/ SubStreamChunk(Letter(1))
    \/ SubStreamFault
    \/ \E calls \in BoundedSeq(SubCalls, MaxInputs) : SubStreamEnd(calls)
    \/ SubToolExecute

JobSearchSpec == Init /\ [][JobSearchNext]_vars

JobRunStarted == job_run # NoJobRun
JobRunFinished == job_run # NoJobRun /\ job_run.pc = "finished"

PushedNamed(name) == Count(pushed, LAMBDA e : e.event = name)

(***************************************************************************)
(* C21: a sub-agent run pushes one search_started, before its first        *)
(* provider call, and one search_completed with the final result count as  *)
(* its last event, on every exit (no call in a turn, stream fault, result  *)
(* limit, iteration cap); its text is pushed as search_progress only.      *)
(***************************************************************************)
C21_StartedFirstCompletedLast ==
    JobRunStarted =>
       /\ pushed[1].event = "search_started"
       /\ PushedNamed("search_started") = 1
       /\ job_run.trace[1] = RunEntry("event", "search_started")
       /\ PushedNamed("text_delta") = 0
       /\ PushedNamed("search_progress") = Len(job_run.full_text)
       /\ \A k \in 1..Len(pushed) :
             pushed[k].event \in {"search_started", "search_progress",
                                  "search_result_added", "search_completed"}
       /\ job_run.pc = "finished" <=> job_run.exit # "none"
       /\ IF job_run.pc = "finished"
          THEN /\ PushedNamed("search_completed") = 1
               /\ pushed[Len(pushed)].event = "search_completed"
               /\ pushed[Len(pushed)].results_added = controller.results_added
               /\ pushed[Len(pushed)].results_added
                    = StoredFor(search_results, controller.conversation_id)
          ELSE PushedNamed("search_completed") = 0

\* The provider stream raised in the second pass, after text and a commit.
C21_Witness ==
    /\ JobRunFinished
    /\ job_run.exit = "fault"
    /\ job_run.iteration = 1
    /\ PushedNamed("search_progress") >= 1
    /\ PushedNamed("search_result_added") = 1
    /\ pushed[Len(pushed)].results_added = 1

(***************************************************************************)
(* C22: the sub-agent's loop executes only the tools of its name set       *)
(* (job_search, web_search, scrape_url, read_user_profile, read_resume,    *)
(* add_search_result): a call that names another registered tool does not  *)
(* invoke that tool's handler.                                             *)
(***************************************************************************)
C22_OnlySubAgentToolsInvoked ==
    JobRunStarted =>
       \A p \in 1..Len(job_run.trace) :
          job_run.trace[p].kind = "handler" =>
             job_run.trace[p].name \in SUB_AGENT_TOOL_NAMES \cup {"add_search_result"}

(***************************************************************************)
(* C31: a sub-agent run whose provider stream faults, or whose iteration   *)
(* cap is reached without a turn free of tool calls, reports an error      *)
(* outcome to the parent (an error in what run returns or pushes), not a   *)
(* normal completed search.                                                *)
(***************************************************************************)
C31_FaultOrCapReportsError ==
    (JobRunFinished /\ job_run.exit \in {"fault", "cap"}) =>
       \/ "error" \in DOMAIN job_run.returned
       \/ PushedNamed("error") >= 1

(***************************************************************************)
(* C34: a commit without a url (absent or empty) is never rejected as      *)
(* duplicate and leaves the seen-url set as it was; while the count is     *)
(* below max_results it stores a new record, also after an identical       *)
(* commit without a url.                                                   *)
(***************************************************************************)
UrlLessCommits == {p \in Commits : attempts[p].url = NoUrl}

C34_UrlLessCommitNeverDuplicate ==
    \A p \in UrlLessCommits :
       /\ attempts[p].status # "duplicate"
       /\ attempts[p].seen_after = attempts[p - 1].seen_after
       /\ NoUrl \notin attempts[p].seen_after
       /\ attempts[p].count_before < attempts[p].max_results =>
             /\ attempts[p].status = "added"
             /\ attempts[p].stored_after = attempts[p].stored_before + 1

\* Two commits without a url, one right after the other, both stored.
C34_Witness ==
    \E p \in UrlLessCommits :
       /\ p - 1 \in UrlLessCommits
       /\ attempts[p - 1].status = "added"
       /\ attempts[p].status = "added"
       /\ attempts[p].stored_after = attempts[p - 1].stored_before + 2

(***************************************************************************)
(* C35: a commit the tool rejects (limit_reached or duplicate) changes     *)
(* nothing: no record stored, count and seen-url set as before, no event   *)
(* pushed.                                                                 *)
(***************************************************************************)
Rejections ==
    {p \in Commits : attempts[p].status \in {"limit_reached", "duplicate"}}

C35_RejectedCommitChangesNothing ==
    \A p \in Rejections :
       /\ attempts[p].stored_after = attempts[p].stored_before
       /\ attempts[p].count_after = attempts[p].count_before
       /\ attempts[p].count_after = attempts[p - 1].count_after
       /\ attempts[p].seen_after = attempts[p - 1].seen_after
       /\ attempts[p].pushed_after = attempts[p].pushed_before

\* A commit was rejected as duplicate in a session that had stored a record
\* and pushed its event.
C35_Witness ==
    \E p \in Rejections :
       /\ attempts[p].status = "duplicate"
       /\ attempts[p].count_before >= 1
       /\ attempts[p].pushed_before >= 1

(***************************************************************************)
(* Two result sinks of one conversation alive at the same time: two         *)
(* JobSearchSubAgentTools objects over the one search_results table.       *)
(***************************************************************************)
PeerIds == {1, 2}

\* job_search_agent.py:115-129.  A controller is constructed and primed
\* before any commit of the run of the other one.
PeerConstruct(i, conversation_id, max_results) ==
    /\ peers[i] = NoController
    /\ pushed = <<>>
    /\ \A j \in PeerIds :
          peers[j] # NoController =>
             /\ peers[j].conversation_id = conversation_id
             /\ peers[j].max_results = max_results
    /\ peers' = [peers EXCEPT
                    ![i] = JobSearchSubAgentTools(conversation_id, max_results,
                                                  search_results)]
    /\ UNCHANGED << search_results, pushed >>
    /\ UNCHANGED notPeers

\* job_search_agent.py:131-176.  One of the two commits a result.
PeerCommit(i, url) ==
    /\ \A j \in PeerIds : peers[j] # NoController
    /\ LET out == add_search_result(peers[i], search_results, url)
       IN  /\ peers' = [peers EXCEPT ![i] = out.controller]
           /\ search_results' = out.rows
           /\ pushed' = pushed \o out.events
    /\ UNCHANGED notPeers

PeerNext ==
    \/ \E i \in PeerIds, conversation_id \in ConversationIds,
          max_results \in 1..MaxResults :
          PeerConstruct(i, conversation_id, max_results)
    \/ \E i \in PeerIds, url \in Urls : PeerCommit(i, url)

PeerSpec == Init /\ [][PeerNext]_vars

(***************************************************************************)
(* C38: with two controllers of one conversation running at the same time  *)
(* (both primed before any commit, commits interleaved in any order), the  *)
(* records stored for the conversation never hold one non-empty url twice  *)
(* and never number more than max_results.                                 *)
(***************************************************************************)
C38_ConcurrentControllersKeepLimits ==
    (\A j \in PeerIds : peers[j] # NoController) =>
       /\ \A url \in Urls \ {NoUrl} :
             StoredWithUrl(search_results, peers[1].conversation_id, url) <= 1
       /\ StoredFor(search_results, peers[1].conversation_id) <= peers[1].max_results

(***************************************************************************)
(* C33: during a run of DefaultAgent the history is append-only: no step   *)
(* changes, replaces or removes a message already in it, the system        *)
(* message at position 0 included, also after a tool handler has run.      *)
(***************************************************************************)
HistoryKept ==
    pc # "start" =>
       /\ Len(lc_messages') >= Len(lc_messages)
       /\ \A k \in 1..Len(lc_messages) : lc_messages'[k] = lc_messages[k]
       /\ lc_messages'[1] = SystemMessage

C33_HistoryAppendOnly == [][HistoryKept]_vars

\* The provider is called a second time after a tool handler ran and its
\* tool message was appended.
C33_Witness ==
    /\ pc = "stream"
    /\ iteration >= 1
    /\ \E p \in 1..Len(log) : log[p].kind = "handler"
    /\ lc_messages[Len(lc_messages)].role = "tool"
    /\ lc_messages[1] = SystemMessage

(***************************************************************************)
(* C36: at every provider call of DefaultAgent.run the history is          *)
(* well-formed: each tool call listed in an assistant message is answered  *)
(* by exactly one later tool message with its id, and each tool message    *)
(* answers such a call; also when a fault is raised in the tool phase,     *)
(* after the assistant message was appended, and the loop retries.         *)
(***************************************************************************)
AnswersTo(msgs, k, id) ==
    {j \in (k + 1)..Len(msgs) : msgs[j].role = "tool" /\ msgs[j].call_id = id}

WellFormed(msgs) ==
    /\ \A k \in 1..Len(msgs) :
          msgs[k].role = "ai" =>
             \A c \in 1..Len(msgs[k].calls) :
                Cardinality(AnswersTo(msgs, k, msgs[k].calls[c])) = 1
    /\ \A j \in 1..Len(msgs) :
          msgs[j].role = "tool" =>
             \E k \in 1..(j - 1) :
                /\ msgs[k].role = "ai"
                /\ \E c \in 1..Len(msgs[k].calls) : msgs[k].calls[c] = msgs[j].call_id

C36_HistoryWellFormedAtProviderCall ==
    pc = "stream" => WellFormed(lc_messages)

(***************************************************************************)
(* C39: the matcher's result is fixed by the registry and the object's     *)
(* keys, and among the eligible tools sharing the highest positive score   *)
(* it is the one registered first.                                         *)
(***************************************************************************)
\* The positions of the registry whose tool is eligible with the given score.
EligibleAt(score2) ==
    {k \in 1..Len(matcher.definitions) :
        /\ matcher.definitions[k] \in EligibleTools
        /\ ClaimScore2(matcher.definitions[k]) = score2}

\* The highest score of an eligible tool, doubled; 0 when there is none.
TopScore2 ==
    IF EligibleTools = {} THEN 0
    ELSE CHOOSE n \in {ClaimScore2(t) : t \in EligibleTools} :
            \A t \in EligibleTools : ClaimScore2(t) <= n

C39_FirstRegisteredWinsTies ==
    MatchReturned =>
       IF matcher.obj_keys = {} \/ TopScore2 <= 0
       THEN matcher.value = NoTool
       ELSE \E k \in EligibleAt(TopScore2) :
               /\ matcher.value = matcher.definitions[k]
               /\ \A j \in EligibleAt(TopScore2) : k <= j

\* job_search, run_job_search and web_search all require query only and
\* score 1 on {query}; job_search is registered first and is returned.
C39_Witness ==
    /\ MatchReturned
    /\ matcher.definitions = TOOL_REGISTRY
    /\ matcher.obj_keys = {"query"}
    /\ Cardinality(EligibleAt(TopScore2)) >= 2
    /\ TopScore2 = 2
    /\ matcher.value = "job_search"

(***************************************************************************)
(* C40: the finalized calls of a turn are in ascending order of fragment   *)
(* index whatever the order of arrival; an index without a name fragment   *)
(* gives no call and leaves the calls of the other indexes as they are; a  *)
(* fragment without an index counts as index 0.                            *)
(***************************************************************************)
TopIndex == CHOOSE i \in ChunkIndexes : \A j \in ChunkIndexes : j <= i

\* The names and argument texts of the indexes i..TopIndex that have a
\* name, in ascending order of index.
RECURSIVE NamesAscending(_)
NamesAscending(i) ==
    IF i > TopIndex THEN <<>>
    ELSE (IF ConcatNames(FragmentsOf(i)) # EmptyText
          THEN << [name |-> ConcatNames(FragmentsOf(i)),
                   args |-> ParseOrEmpty(ConcatArgs(FragmentsOf(i)))] >>
          ELSE <<>>) \o NamesAscending(i + 1)

C40_CallsInIndexOrder ==
    final_tool_calls.finalized =>
       [k \in 1..Len(final_tool_calls.calls) |->
           [name |-> final_tool_calls.calls[k].name,
            args |-> final_tool_calls.calls[k].args]] = NamesAscending(0)

\* The fragment of index 1 arrived before one without an index; the call of
\* the latter comes first.
C40_Witness ==
    /\ final_tool_calls.finalized
    /\ Len(fragments) = 2
    /\ fragments[1].index = 1 /\ fragments[1].name = << "w" >>
    /\ fragments[2].index = NoIndex /\ fragments[2].name = << "s" >>
    /\ Len(final_tool_calls.calls) = 2
    /\ final_tool_calls.calls[1].name = << "s" >>
    /\ final_tool_calls.calls[2].name = << "w" >>

(***************************************************************************)
(* The onboarding interview: DefaultOnboardingAgent.run                    *)
(* (backend/agent/default/onboarding_agent.py:72-216).  Its loop has the   *)
(* bound MAX_ITERATIONS of its own module (line 26), 15 as the main        *)
(* loop's.  A text is a sequence of pieces, the completion marker being    *)
(* one piece.                                                              *)
(***************************************************************************)
Marker == "[ONBOARDING_COMPLETE]"

OnboardingPieces == {<< "a" >>, << Marker >>}

\* onboarding_agent.py:107: `"[ONBOARDING_COMPLETE]" in full_text`.
HasMarker(text) == \E k \in 1..Len(text) : text[k] = Marker

\* What the model's merged response holds in tool calls: none, only calls
\* without a name, or calls of which some have a name.
TurnCalls == {"none", "malformed", "valid"}

\* onboarding_agent.py:81 and 216.  The next pass of the loop, or the done
\* after it.
OnboardingNextIteration(run, ft, trace) ==
    IF run.iteration + 1 < MAX_ITERATIONS
    THEN [run EXCEPT !.pc = "stream", !.iteration = @ + 1, !.full_text = ft,
                     !.collected_content = EmptyText, !.trace = trace]
    ELSE [run EXCEPT !.pc = "finished", !.full_text = ft,
                     !.trace = Append(trace, "done")]

\* onboarding_agent.py:72-88.
OnboardingRun ==
    /\ onboarding = NoOnboarding
    /\ onboarding' = [pc |-> "stream", iteration |-> 0, full_text |-> EmptyText,
                      collected_content |-> EmptyText, trace |-> <<>>, inputs |-> 0]
    /\ UNCHANGED notOnboarding

\* onboarding_agent.py:90-95.  A chunk with text.
OnboardingChunk(text_piece) ==
    /\ onboarding.pc = "stream"
    /\ onboarding.inputs < MaxInputs
    /\ onboarding' = [onboarding EXCEPT
                         !.collected_content = @ \o text_piece,
                         !.inputs = @ + 1,
                         !.trace = Append(@, "text_delta")]
    /\ UNCHANGED notOnboarding

\* onboarding_agent.py:104-169 and, for a fault of json.dumps in the tool
\* loop, 171-175 and 209-214.  The stream is exhausted: the text is added
\* to full_text, the marker is looked for in full_text, and the turn's
\* calls are executed.
OnboardingTurnEnd(calls, dumps_raises) ==
    /\ onboarding.pc = "stream"
    /\ calls = "valid" \/ ~dumps_raises
    /\ LET ft == onboarding.full_text \o onboarding.collected_content
           marked == IF HasMarker(ft)
                     THEN onboarding.trace \o << "set_onboarded", "onboarding_complete" >>
                     ELSE onboarding.trace
       IN  onboarding' =
              IF calls # "valid"
              THEN [onboarding EXCEPT !.pc = "finished", !.full_text = ft,
                                      !.trace = Append(marked, "done")]
              ELSE IF ~dumps_raises
              THEN OnboardingNextIteration(onboarding, ft, Append(marked, "tools"))
              ELSE LET ft2 == ft \o onboarding.collected_content
                       faulted == marked \o << "tools", "fault" >>
                   IN  IF onboarding.iteration >= MAX_ITERATIONS - 1
                       THEN [onboarding EXCEPT !.pc = "finished", !.full_text = ft2,
                                               !.trace = Append(faulted, "error")]
                       ELSE OnboardingNextIteration(onboarding, ft2, faulted)
    /\ UNCHANGED notOnboarding

\* onboarding_agent.py:171-214.  The provider stream raises: the text so
\* far is kept; the recovered calls, if any, are executed and the loop
\* continues; otherwise the fault is reported in the last pass and the loop
\* retries in the others.
OnboardingStreamFault(recovered) ==
    /\ onboarding.pc = "stream"
    /\ onboarding.inputs < MaxInputs
    /\ LET ft == onboarding.full_text \o onboarding.collected_content
           run == [onboarding EXCEPT !.inputs = @ + 1]
           faulted == Append(onboarding.trace, "fault")
       IN  onboarding' =
              IF recovered
              THEN OnboardingNextIteration(run, ft, Append(faulted, "tools"))
              ELSE IF onboarding.iteration >= MAX_ITERATIONS - 1
              THEN [run EXCEPT !.pc = "finished", !.full_text = ft,
                               !.trace = Append(faulted, "error")]
              ELSE OnboardingNextIteration(run, ft, faulted)
    /\ UNCHANGED notOnboarding

OnboardingNext ==
    \/ OnboardingRun
    \/ \E text_piece \in OnboardingPieces : OnboardingChunk(text_piece)
    \/ \E calls \in TurnCalls, dumps_raises \in BOOLEAN :
          OnboardingTurnEnd(calls, dumps_raises)
    \/ \E recovered \in BOOLEAN : OnboardingStreamFault(recovered)

OnboardingSpec == Init /\ [][OnboardingNext]_vars

(***************************************************************************)
(* C37: in one run of DefaultOnboardingAgent onboarding_complete is        *)
(* emitted at most once and set_onboarded(True) is called at most once,    *)
(* also when the marker is in the text of a turn that has tool calls and   *)
(* the loop goes on.                                                       *)
(***************************************************************************)
C37_CompletionAtMostOnce ==
    onboarding # NoOnboarding =>
       /\ Count(onboarding.trace, LAMBDA e : e = "onboarding_complete") <= 1
       /\ Count(onboarding.trace, LAMBDA e : e = "set_onboarded") <= 1

(***************************************************************************)
(* The profile-refreshing onboarding loop: LangChainOnboardingAgent.run    *)
(* (backend/agent/langchain_agent.py:568-682).  The profile document is    *)
(* given by its revision; a system message by the revision it was built    *)
(* from.                                                                   *)
(***************************************************************************)
\* ONBOARDING_MAX_ITERATIONS (langchain_agent.py:552) is 6 in the source.
ONBOARDING_MAX_ITERATIONS == 2

\* Most revisions of the profile written from outside the run, and most
\* tool calls of one turn.
MaxEdits == 2
MaxRoundCalls == 2

\* langchain_agent.py:549.
ONBOARDING_TOOL_NAMES == {"read_user_profile", "update_user_profile"}

\* SystemMessage(content=ONBOARDING_SYSTEM_PROMPT.format(user_profile=...)).
ProfileSystemMessage(revision) == [role |-> "system", profile |-> revision]

\* The tool round that leaves the system message as it is.
RefreshSystem_kept(msgs, revision) == msgs

\* langchain_agent.py:676-680.  `lc_messages[0] = SystemMessage(...)`.
RefreshSystem(msgs, revision) ==
    [msgs EXCEPT ![1] = ProfileSystemMessage(revision)]

\* langchain_agent.py:570-576.
RefreshRun ==
    /\ refresh = NoRefresh
    /\ refresh' = [pc |-> "stream", iteration |-> 0,
                   lc_messages |-> << ProfileSystemMessage(profile),
                                      [role |-> "human"] >>,
                   round_profile |-> profile, edits |-> 0, trace |-> <<>>]
    /\ UNCHANGED profile
    /\ UNCHANGED notRefresh

\* The profile document is written from outside the run (the profile
\* editor, another conversation) while the provider streams.
ProfileEdited ==
    /\ refresh # NoRefresh
    /\ refresh.pc = "stream"
    /\ refresh.edits < MaxEdits
    /\ profile' = profile + 1
    /\ refresh' = [refresh EXCEPT !.edits = @ + 1]
    /\ UNCHANGED notRefresh

\* langchain_agent.py:611-614.  The provider stream raises.
RefreshStreamFault ==
    /\ refresh # NoRefresh
    /\ refresh.pc = "stream"
    /\ refresh' = [refresh EXCEPT !.pc = "finished", !.trace = Append(@, "error")]
    /\ UNCHANGED profile
    /\ UNCHANGED notRefresh

\* langchain_agent.py:616-682.  The stream is exhausted.  Without tool
\* calls the run is done.  Otherwise the assistant message is appended,
\* each call is executed and its tool message appended (a call of
\* update_user_profile that succeeds writes the profile), the profile is
\* read again and the system message replaced.
RefreshTurnEnd(calls, writes) ==
    /\ refresh # NoRefresh
    /\ refresh.pc = "stream"
    /\ IF calls = <<>>
       THEN /\ refresh' = [refresh EXCEPT !.pc = "finished",
                                          !.trace = Append(@, "done")]
            /\ UNCHANGED profile
       ELSE LET written == Count(calls, LAMBDA n : n = "update_user_profile" /\ writes)
                revision == profile + written
                appended == refresh.lc_messages \o << [role |-> "ai", calls |-> calls] >>
                              \o [k \in 1..Len(calls) |-> [role |-> "tool", name |-> calls[k]]]
                last == refresh.iteration + 1 >= ONBOARDING_MAX_ITERATIONS
            IN  /\ profile' = revision
                /\ refresh' = [refresh EXCEPT
                                  !.pc = IF last THEN "finished" ELSE "stream",
                                  !.iteration = @ + 1,
                                  !.lc_messages = RefreshSystem(appended, revision),
                                  !.round_profile = revision,
                                  !.trace = IF last THEN Append(@, "done") ELSE @]
    /\ UNCHANGED notRefresh

RefreshNext ==
    \/ RefreshRun
    \/ ProfileEdited
    \/ RefreshStreamFault
    \/ \E calls \in BoundedSeq(ONBOARDING_TOOL_NAMES, MaxRoundCalls), writes \in BOOLEAN :
          RefreshTurnEnd(calls, writes)

RefreshSpec == Init /\ [][RefreshNext]_vars

(***************************************************************************)
(* C32: in LangChainOnboardingAgent.run the profile is read again after    *)
(* every round of tools and the system message at position 0 is replaced   *)
(* in place: at every provider call after the first the system message is  *)
(* built from the profile as it stood at the end of the preceding tool     *)
(* round; no other position of the history is replaced.                    *)
(***************************************************************************)
SystemReflectsLastRound ==
    (refresh # NoRefresh /\ refresh.pc = "stream" /\ refresh.iteration >= 1) =>
       refresh.lc_messages[1] = ProfileSystemMessage(refresh.round_profile)

OtherPositionsKept ==
    (refresh # NoRefresh /\ refresh' # NoRefresh) =>
       /\ Len(refresh'.lc_messages) >= Len(refresh.lc_messages)
       /\ \A k \in 2..Len(refresh.lc_messages) :
             refresh'.lc_messages[k] = refresh.lc_messages[k]

C32_SystemTurnRefreshedInPlace ==
    []SystemReflectsLastRound /\ [][OtherPositionsKept]_vars

\* The provider is called again after a round in which update_user_profile
\* wrote the profile; nothing else has written it.
C32_Witness ==
    /\ refresh # NoRefresh
    /\ refresh.pc = "stream"
    /\ refresh.iteration >= 1
    /\ refresh.round_profile >= 1
    /\ refresh.edits = 0
    /\ refresh.lc_messages[1].profile = refresh.round_profile
    /\ Len(refresh.lc_messages) >= 4

====
